---- MODULE Spec2Model ----
(***************************************************************************)
(* Model of the podzamenu lookup service (src/podzamenu_lookup_service.py). *)
(*                                                                         *)
(* Spec     follows one /lookup request through the retry loop of lookup() *)
(*          and the source routing of _do_lookup_routed(); the outcome of  *)
(*          each provider run is an input drawn from the outcomes the      *)
(*          provider functions can produce.                                *)
(* SpecAdm  follows several /lookup and /fetch-page requests through the   *)
(*          two admission semaphores and the lazily created browser.       *)
(***************************************************************************)
EXTENDS FiniteSets, Integers, Naturals, Sequences, TLC

(* ------------------------------------------------------------------ *)
(* Program constants                                                   *)
(* ------------------------------------------------------------------ *)
MAX_RETRIES == 2

LookupLimit == 2

FetchLimit == 5

(* ------------------------------------------------------------------ *)
(* Bounds of the model                                                 *)
(* ------------------------------------------------------------------ *)
NumLookups == 3

NumFetches == 6

\* completed browser launches are counted up to this number
LaunchCountCap == 2

\* longest run of one character in the strings tried on is_valid_gearbox_oem
MaxRun == 13

VARIABLES
  strategy,       \* SOURCE_STRATEGY
  screenshotOnError, \* SCREENSHOT_ON_ERROR
  idType,         \* request.idType
  pc,             \* position of the lookup() handler
  attempt,        \* loop variable of lookup()
  evidence,       \* the evidence dict owned by lookup()
  source_tried,   \* local list of _do_lookup_routed
  podzOut,        \* how _do_lookup_podzamenu ended in the current routed attempt
  profOut,        \* how _do_lookup_prof_rf ended in the current routed attempt
  routedOut,      \* how _do_lookup_routed ended in the current routed attempt
  invoked,        \* providers invoked in the current routed attempt, in order
  everInvoked,    \* providers invoked during the whole request
  history,        \* how each finished routed attempt ended
  response,       \* what lookup() returned
  raised,         \* what lookup() raised
  browser,        \* _browser: 0 is None, n > 0 the n-th launched instance
  launches,       \* number of chromium.launch() calls that completed (capped)
  openCtx,        \* number of browser contexts currently open
  lookupValue,    \* _lookup_semaphore._value
  lookupWaiters,  \* _lookup_semaphore._waiters
  fetchValue,     \* _fetch_semaphore._value
  fetchWaiters,   \* _fetch_semaphore._waiters
  lk,             \* /lookup requests of SpecAdm
  ft,             \* /fetch-page requests of SpecAdm, counted by position
  oem_code,       \* argument of is_valid_gearbox_oem
  verdict,        \* what is_valid_gearbox_oem returned
  request_value,  \* request.value
  search_page,    \* what _do_lookup_podzamenu read from the search page
  detail_page,    \* what it read after _navigate_to_gearbox_detail
  gearbox,        \* local gearbox of _do_lookup_podzamenu
  selectors_used, \* local selectors_used of _do_lookup_podzamenu
  called,         \* the extraction and navigation functions it called, in order
  prof_page,      \* what _do_lookup_prof_rf read from its page
  prof_gearbox,   \* local gearbox of _do_lookup_prof_rf
  prof_selectors, \* local selectors_used of _do_lookup_prof_rf
  ranker_input,   \* argument candidates of _filter_oem_candidates
  ranker_sorts,   \* argument sort_by_priority of _filter_oem_candidates
  ranker_pc,      \* position of the call of _filter_oem_candidates
  ranker_result,  \* what _filter_oem_candidates returned
  nav,            \* where _navigate_to_gearbox_detail stands and what it did so far
  repeat,         \* the runs of _do_lookup_podzamenu repeated on the same pages
  msgr,           \* max_personal_service.py: sessions, session_semaphore, requests and tasks
  monitor         \* one task monitor_incoming_messages and the page it reads

routeVars == <<strategy, screenshotOnError, idType, pc, attempt, evidence, source_tried, podzOut,
               profOut, routedOut, invoked, everInvoked, history, response, raised>>

semVars == <<lookupValue, lookupWaiters, fetchValue, fetchWaiters>>

admVars == <<lk, ft>>

serviceVars == <<routeVars, browser, launches, openCtx, semVars, admVars>>

rankerVars == <<ranker_input, ranker_sorts, ranker_pc, ranker_result>>

\* the variables of the specifications added last
laterVars == <<repeat, msgr, monitor>>

filterVars == <<oem_code, verdict, rankerVars, nav, laterVars>>

\* the variables of the specifications that run no request handler
podzVars == <<search_page, detail_page, gearbox, selectors_used, called>>

profVars == <<prof_page, prof_gearbox, prof_selectors>>

pageVars == <<request_value, podzVars, profVars>>

\* the variables of the specifications that run no request handler, and of
\* the specification that follows the pages of one request
offlineVars == <<filterVars, pageVars>>

vars == <<serviceVars, offlineVars>>

(* ------------------------------------------------------------------ *)
(* Evidence                                                            *)
(* ------------------------------------------------------------------ *)
\* What a provider run writes is stamped with the provider and the attempt.
Tag(p, a) == [src |-> p, att |-> a]

NoTag == [src |-> "", att |-> 0 - 1]

\* lookup(): evidence = {"finalUrl": "", "selectorsUsed": []}
InitEvidence ==
  [source |-> "", finalUrl |-> NoTag, selectorsUsed |-> <<>>, flags |-> {},
   sourceTried |-> <<>>, sourceSelected |-> "", error |-> ""]

\* _do_lookup_routed: ev = {**evidence, "finalUrl": "", "selectorsUsed": []}
FreshEv(e) == [e EXCEPT !.finalUrl = NoTag, !.selectorsUsed = <<>>]

\* ev is a new dict, so a provider run leaves the dict of lookup() as it was.
EvidenceSharedWithRun(e, ev) == ev

EvidenceAfterRun(e, ev) == e

\* The writes of one provider run into its evidence dict: source and finalUrl
\* always, selectorsUsed when extraction was reached, a diagnostic key
\* (parseError, domDiag, gearboxLinkNotFound, an early-exit flag) when one was set.
RunEv(ev0, p, a, wroteSel, wroteFlag) ==
  [ev0 EXCEPT !.source = p,
              !.finalUrl = Tag(p, a),
              !.selectorsUsed = IF wroteSel THEN <<Tag(p, a)>> ELSE @,
              !.flags = IF wroteFlag THEN @ \cup {Tag(p, a)} ELSE @]

(* ------------------------------------------------------------------ *)
(* Outcomes of a call: a returned LookupResponse, an HTTPException, or *)
(* any other exception                                                 *)
(* ------------------------------------------------------------------ *)
NoOut ==
  [kind |-> "none", status |-> 0, error |-> "", oemStatus |-> "", by |-> "",
   att |-> 0 - 1, ev |-> InitEvidence]

Result(p, a, st, ev) ==
  [kind |-> "result", status |-> 200, error |-> "", oemStatus |-> st, by |-> p,
   att |-> a, ev |-> ev]

HttpError(p, a, code, err, ev) ==
  [kind |-> "http", status |-> code, error |-> err, oemStatus |-> "", by |-> p,
   att |-> a, ev |-> ev]

\* error is "timeout" for a timeout-class exception, "other" otherwise
Exc(p, a, class, ev) ==
  [kind |-> "exc", status |-> 0, error |-> class, oemStatus |-> "", by |-> p,
   att |-> a, ev |-> ev]

\* _do_lookup_podzamenu: the ways it can end for this idType
PodzamenuOutcomes(t, a, ev0) ==
  LET p == "podzamenu" IN
       { Result(p, a, st, RunEv(ev0, p, a, TRUE, TRUE)) :
         st \in {"FOUND", "NOT_FOUND", "NOT_AVAILABLE"}
                  \cup (IF t = "VIN" THEN {"MODEL_ONLY"} ELSE {}) }
  \cup { HttpError(p, a, 404, "NOT_FOUND", RunEv(ev0, p, a, FALSE, FALSE)) }
  \cup (IF t = "FRAME" THEN {}
        ELSE { HttpError(p, a, 500, "PARSE_FAILED", RunEv(ev0, p, a, TRUE, TRUE)) })
  \cup { Exc(p, a, c, RunEv(ev0, p, a, FALSE, w)) :
         c \in {"timeout", "other"}, w \in BOOLEAN }

\* _do_lookup_prof_rf: the ways it can end
ProfRfOutcomes(a, ev0) ==
  LET p == "prof_rf" IN
       { Result(p, a, st, RunEv(ev0, p, a, TRUE, FALSE)) :
         st \in {"FOUND", "NOT_AVAILABLE"} }
  \cup { HttpError(p, a, 404, "NOT_FOUND", RunEv(ev0, p, a, FALSE, FALSE)) }
  \cup { HttpError(p, a, 500, "PARSE_FAILED", RunEv(ev0, p, a, TRUE, TRUE)) }
  \cup { Exc(p, a, c, RunEv(ev0, p, a, FALSE, FALSE)) : c \in {"timeout", "other"} }

(* ------------------------------------------------------------------ *)
(* _do_lookup_routed                                                   *)
(* ------------------------------------------------------------------ *)
\* _add_source_evidence that names podzamenu whatever was selected
AddSourceEvidencePrimaryOnly(resp, tried, selected) ==
  [resp EXCEPT !.ev.sourceTried = tried, !.ev.sourceSelected = "podzamenu"]

\* _add_source_evidence
AddSourceEvidence(resp, tried, selected) ==
  [resp EXCEPT !.ev.sourceTried = tried, !.ev.sourceSelected = selected]

\* The branch of _do_lookup_routed taken for the request and the configuration.
RouteModeIgnoringPin(t, s) ==
  IF t = "FRAME" THEN (IF s = "prof_rf" THEN "unsupported" ELSE "frame")
  ELSE "auto"

RouteModeIgnoringFrame(t, s) ==
  IF s = "podzamenu" THEN "pin_podzamenu"
  ELSE IF s = "prof_rf" THEN "pin_prof_rf"
  ELSE "auto"

\* auto as the module docstring has it for a China VIN: prof_rf first
RouteModeAutoToProfRf(t, s) ==
  IF t = "FRAME" THEN (IF s = "prof_rf" THEN "unsupported" ELSE "frame")
  ELSE IF s = "podzamenu" THEN "pin_podzamenu"
  ELSE "pin_prof_rf"

RouteMode(t, s) ==
  IF t = "FRAME" THEN (IF s = "prof_rf" THEN "unsupported" ELSE "frame")
  ELSE IF s = "podzamenu" THEN "pin_podzamenu"
  ELSE IF s = "prof_rf" THEN "pin_prof_rf"
  ELSE "auto"

\* if result.gearbox.oemStatus == "FOUND": return result
PrimaryNeverSuffices(r) == FALSE

PrimarySuffices(r) == r.oemStatus = "FOUND"

\* is_not_found or is_parse_failed
IsNotFoundOnly(e) == e.status = 404 /\ e.error = "NOT_FOUND"

IsFallbackError(e) ==
  \/ e.status = 404 /\ e.error = "NOT_FOUND"
  \/ e.status = 500 /\ e.error = "PARSE_FAILED"

\* What _do_lookup_routed does once _do_lookup_podzamenu has ended with out:
\* it ends itself (next = "exit") or calls _do_lookup_prof_rf.
RouteAfterPodzamenu(mode, out) ==
  IF mode \in {"frame", "pin_podzamenu"}
  THEN [next |-> "exit", tried |-> <<>>,
        out |-> IF out.kind = "result"
                THEN AddSourceEvidence(out, <<"podzamenu">>, "podzamenu")
                ELSE out]
  ELSE IF out.kind = "result"
  THEN IF PrimarySuffices(out)
       THEN [next |-> "exit", tried |-> <<"podzamenu">>,
             out |-> AddSourceEvidence(out, <<"podzamenu">>, "podzamenu")]
       ELSE [next |-> "prof_rf", tried |-> <<"podzamenu">>, out |-> NoOut]
  ELSE IF out.kind = "http" /\ IsFallbackError(out)
  THEN [next |-> "prof_rf", tried |-> <<"podzamenu">>, out |-> NoOut]
  ELSE [next |-> "exit", tried |-> <<>>, out |-> out]

\* if result2.gearbox.oemStatus == "FOUND": return result2
SecondaryAlwaysPreferred(r) == TRUE

SecondaryPreferred(r) == r.oemStatus = "FOUND"

\* the bare raise that ends the except clause re-raises the podzamenu error
RaisesLast(first, out) == out

Reraised(first, out) == first

\* except HTTPException: pass
SwallowedByRouter(e) == e.kind = "http"

\* What _do_lookup_routed does once _do_lookup_prof_rf has ended with out.
RouteAfterProfRf(mode, first, out, tried) ==
  IF mode = "pin_prof_rf"
  THEN [tried |-> tried,
        out |-> IF out.kind = "result"
                THEN AddSourceEvidence(out, <<"prof_rf">>, "prof_rf")
                ELSE out]
  ELSE IF first.kind = "result"
  THEN IF out.kind = "result"
       THEN [tried |-> Append(tried, "prof_rf"),
             out |-> IF SecondaryPreferred(out)
                     THEN AddSourceEvidence(out, Append(tried, "prof_rf"), "prof_rf")
                     ELSE AddSourceEvidence(first, Append(tried, "prof_rf"), "podzamenu")]
       ELSE IF SwallowedByRouter(out)
       THEN [tried |-> tried, out |-> AddSourceEvidence(first, tried, "podzamenu")]
       ELSE [tried |-> tried, out |-> out]
  ELSE IF out.kind = "result"
       THEN [tried |-> Append(tried, "prof_rf"),
             out |-> AddSourceEvidence(out, Append(tried, "prof_rf"), "prof_rf")]
       ELSE IF SwallowedByRouter(out)
       THEN [tried |-> tried, out |-> Reraised(first, out)]
       ELSE [tried |-> tried, out |-> out]

(* ------------------------------------------------------------------ *)
(* lookup(): the retry loop                                            *)
(* ------------------------------------------------------------------ *)
\* is_timeout = "timeout" in str(e).lower() or "Timeout" in type(e).__name__
AnyExceptionIsTimeout(e) == TRUE

IsTimeout(e) == e.error = "timeout"

\* if is_timeout and attempt < MAX_RETRIES: continue
Retries(out, a) == out.kind = "exc" /\ IsTimeout(out) /\ a < MAX_RETRIES

\* raise HTTPException(500, {"error": "LOOKUP_ERROR", "message": ..., "evidence": evidence})
LookupError(last, a, e) ==
  HttpError("lookup", a, 500, "LOOKUP_ERROR", [e EXCEPT !.error = last.error])

\* if SCREENSHOT_ON_ERROR: try: ... except Exception: pass
\* The ways the screenshot block at the end of lookup() can go: it is skipped;
\* an exception is raised before its context exists; an exception is raised
\* by new_page(), goto() or screenshot() once the context exists, and the
\* except clause passes over ctx.close(); or the screenshot is stored and the
\* context closed.
ErrorScreenshotEnds(on) ==
  IF on THEN {"no_context", "raised_in_context", "stored"} ELSE {"skipped"}

\* the contexts the screenshot block leaves open
LeftOpenBy(shot) == IF shot = "raised_in_context" THEN 1 ELSE 0

\* evidence["screenshotOnError"] = base64.b64encode(screenshot).decode()
WithScreenshot(e, a, shot) ==
  IF shot = "stored" THEN [e EXCEPT !.flags = @ \cup {Tag("lookup", a)}] ELSE e

\* The end of one routed attempt inside lookup(): the provider's finally
\* clause has closed its context and the semaphore is released, then the
\* result is returned, the HTTPException re-raised, the attempt repeated, or
\* LOOKUP_ERROR raised after the screenshot block.
EndAttempt(out, tried, evAfter) ==
  /\ routedOut' = out
  /\ source_tried' = tried
  /\ history' = Append(history, out)
  /\ lookupValue' = lookupValue + 1
  /\ evidence' = evAfter
  /\ IF out.kind = "result"
     THEN /\ response' = out
          /\ pc' = "done"
          /\ openCtx' = openCtx - 1
          /\ UNCHANGED <<raised, attempt>>
     ELSE IF out.kind = "http"
     THEN /\ raised' = out
          /\ pc' = "done"
          /\ openCtx' = openCtx - 1
          /\ UNCHANGED <<response, attempt>>
     ELSE IF Retries(out, attempt)
     THEN /\ attempt' = attempt + 1
          /\ pc' = "attempt"
          /\ openCtx' = openCtx - 1
          /\ UNCHANGED <<response, raised>>
     ELSE /\ \E shot \in ErrorScreenshotEnds(screenshotOnError) :
               /\ raised' = LookupError(out, attempt, WithScreenshot(evAfter, attempt, shot))
               /\ openCtx' = openCtx - 1 + LeftOpenBy(shot)
          /\ pc' = "done"
          /\ UNCHANGED <<response, attempt>>

\* one more completed chromium.launch()
CountLaunch(n) == IF n < LaunchCountCap THEN n + 1 ELSE n

\* _get_browser() as seen by a single caller, then browser.new_context()
OpenContext ==
  /\ browser' = IF browser = 0 THEN CountLaunch(launches) ELSE browser
  /\ launches' = IF browser = 0 THEN CountLaunch(launches) ELSE launches
  /\ openCtx' = openCtx + 1

\* async with _lookup_semaphore: await _do_lookup_routed(...), up to the
\* first provider call
AttemptBegin ==
  /\ pc = "attempt"
  /\ lookupValue > 0
  /\ invoked' = IF RouteMode(idType, strategy) = "unsupported" THEN <<>>
                ELSE IF RouteMode(idType, strategy) = "pin_prof_rf"
                THEN <<"prof_rf">> ELSE <<"podzamenu">>
  /\ everInvoked' = everInvoked \cup {invoked'[i] : i \in 1..Len(invoked')}
  /\ podzOut' = NoOut
  /\ profOut' = NoOut
  /\ IF RouteMode(idType, strategy) = "unsupported"
     THEN /\ routedOut' = HttpError("router", attempt, 400, "UNSUPPORTED_ID_TYPE", InitEvidence)
          /\ raised' = routedOut'
          /\ history' = Append(history, routedOut')
          /\ source_tried' = <<>>
          /\ pc' = "done"
          /\ UNCHANGED <<lookupValue, browser, launches, openCtx>>
     ELSE /\ routedOut' = NoOut
          /\ source_tried' = <<>>
          /\ lookupValue' = lookupValue - 1
          /\ OpenContext
          /\ pc' = IF RouteMode(idType, strategy) = "pin_prof_rf"
                   THEN "prof_rf" ELSE "podzamenu"
          /\ UNCHANGED <<raised, history>>
  /\ UNCHANGED <<strategy, screenshotOnError, idType, attempt, evidence, response,
                 lookupWaiters, fetchValue, fetchWaiters, admVars>>
  /\ UNCHANGED offlineVars

\* _do_lookup_routed from the end of _do_lookup_podzamenu (whose context is
\* closed in its finally clause) up to its return, raise or call of prof_rf
AfterPodzamenu(out) ==
  LET step == RouteAfterPodzamenu(RouteMode(idType, strategy), out) IN
    /\ podzOut' = out
    /\ IF step.next = "prof_rf"
       THEN /\ pc' = "prof_rf"
            /\ source_tried' = step.tried
            /\ invoked' = Append(invoked, "prof_rf")
            /\ everInvoked' = everInvoked \cup {"prof_rf"}
            /\ evidence' = EvidenceAfterRun(evidence, out.ev)
            /\ UNCHANGED <<openCtx, routedOut, history, lookupValue,
                           response, raised, attempt>>
       ELSE /\ EndAttempt(step.out, step.tried, EvidenceAfterRun(evidence, out.ev))
            /\ UNCHANGED <<invoked, everInvoked>>
    /\ UNCHANGED <<strategy, screenshotOnError, idType, profOut, browser, launches,
                   lookupWaiters, fetchValue, fetchWaiters, admVars>>

\* _do_lookup_podzamenu ends in one of the ways it can end
PodzamenuEnds ==
  /\ pc = "podzamenu"
  /\ \E out \in PodzamenuOutcomes(idType, attempt, FreshEv(evidence)) : AfterPodzamenu(out)
  /\ UNCHANGED offlineVars

\* _do_lookup_routed from the end of _do_lookup_prof_rf up to its return or raise
AfterProfRf(out) ==
  LET step == RouteAfterProfRf(RouteMode(idType, strategy), podzOut, out, source_tried) IN
    /\ profOut' = out
    /\ EndAttempt(step.out, step.tried, EvidenceAfterRun(evidence, out.ev))
    /\ UNCHANGED <<strategy, screenshotOnError, idType, podzOut, invoked, everInvoked,
                   browser, launches, lookupWaiters, fetchValue, fetchWaiters, admVars>>

\* _do_lookup_prof_rf ends in one of the ways it can end
ProfRfEnds ==
  /\ pc = "prof_rf"
  /\ \E out \in ProfRfOutcomes(attempt, FreshEv(evidence)) : AfterProfRf(out)
  /\ UNCHANGED offlineVars

(* ------------------------------------------------------------------ *)
(* Specification of one routed request                                 *)
(* ------------------------------------------------------------------ *)
\* _navigate_to_gearbox_detail has not been called
NavIdle ==
  [pc |-> "idle", subs |-> 0, link |-> 1, clicks |-> 0, waits |-> 0, tried |-> <<>>,
   verified |-> FALSE, deeper |-> 0, caught |-> FALSE, result |-> "none", by |-> "none"]

\* no run of _do_lookup_podzamenu is being repeated
RepeatIdle == [pc |-> "idle", req |-> <<>>, done |-> <<>>]

(* ------------------------------------------------------------------ *)
(* max_personal_service.py: the state of the messenger connector       *)
(* ------------------------------------------------------------------ *)
MAX_CONCURRENT_SESSIONS == 5

\* SessionState.__init__; playwright, browser and context are "none" (None),
\* "open" or "closed", a task field holds the number of its task (0 is None)
SessionState ==
  [status |-> "disconnected", playwright |-> "none", browser |-> "none", context |-> "none",
   page |-> FALSE, poll_task |-> 0, qr_refresh_task |-> 0, message_monitor_task |-> 0]

\* a task that asyncio.create_task has not been called for
NoTask == [pc |-> "none", session |-> 0]

\* a request that has not arrived
Arrival(kind, t) ==
  [kind |-> kind, tenant |-> t, pc |-> "idle", session |-> 0, stage |-> 0, response |-> "none"]

\* The module state after import, with the requests that will arrive:
\* sessions = {}, session_semaphore = asyncio.Semaphore(MAX_CONCURRENT_SESSIONS).
\* The SessionState made by request c is object c, the tasks made by
\* start_auth of request c are poll[c] and qr[c], the task made by poll[p]
\* is mon[p].
Connector(reqs, tenants) ==
  [sessions |-> [t \in tenants |-> 0],
   objs |-> [c \in DOMAIN reqs |-> SessionState],
   value |-> MAX_CONCURRENT_SESSIONS,
   waiters |-> <<>>,
   calls |-> reqs,
   poll |-> [c \in DOMAIN reqs |-> NoTask],
   qr |-> [c \in DOMAIN reqs |-> NoTask],
   mon |-> [c \in DOMAIN reqs |-> NoTask],
   typed |-> {}]

\* no monitor_incoming_messages task is looked at
MonitorIdle == [pc |-> "idle"]

InitConnectorIdle ==
  /\ msgr = Connector(<<>>, {})
  /\ monitor = MonitorIdle

InitLaterIdle ==
  /\ repeat = RepeatIdle
  /\ InitConnectorIdle

\* no call of is_valid_gearbox_oem is under way
InitFilterIdle ==
  /\ oem_code = <<>>
  /\ verdict = "none"
  /\ ranker_input = <<>>
  /\ ranker_sorts = FALSE
  /\ ranker_pc = "idle"
  /\ ranker_result = <<>>
  /\ nav = NavIdle
  /\ InitLaterIdle

\* no page has been loaded
InitPagesIdle ==
  /\ request_value = <<>>
  /\ search_page = <<>>
  /\ detail_page = <<>>
  /\ gearbox = <<>>
  /\ selectors_used = <<>>
  /\ called = <<>>
  /\ prof_page = <<>>
  /\ prof_gearbox = <<>>
  /\ prof_selectors = <<>>

InitOffline == InitFilterIdle /\ InitPagesIdle

InitShared ==
  /\ browser = 0
  /\ launches = 0
  /\ openCtx = 0
  /\ lookupValue = LookupLimit
  /\ lookupWaiters = <<>>
  /\ fetchValue = FetchLimit
  /\ fetchWaiters = <<>>

InitRoute ==
  /\ pc = "attempt"
  /\ attempt = 0
  /\ evidence = InitEvidence
  /\ source_tried = <<>>
  /\ podzOut = NoOut
  /\ profOut = NoOut
  /\ routedOut = NoOut
  /\ invoked = <<>>
  /\ everInvoked = {}
  /\ history = <<>>
  /\ response = NoOut
  /\ raised = NoOut

Init ==
  /\ strategy \in {"auto", "podzamenu", "prof_rf"}
  /\ screenshotOnError \in BOOLEAN
  /\ idType \in {"VIN", "FRAME"}
  /\ InitRoute
  /\ InitShared
  /\ InitOffline
  /\ lk = <<>>
  /\ ft = [idle |-> 0, launching |-> 0, ctx |-> 0, done |-> 0]

Next ==
  \/ AttemptBegin
  \/ PodzamenuEnds
  \/ ProfRfEnds

Spec == Init /\ [][Next]_vars

(* ------------------------------------------------------------------ *)
(* asyncio.Semaphore, as used by "async with _lookup_semaphore" and    *)
(* "async with _fetch_semaphore": a counter and a queue of waiters; a  *)
(* release hands the permit to the first waiter that was not yet woken *)
(* ------------------------------------------------------------------ *)
NeverLocked(v, w) == FALSE

Locked(v, w) == v = 0 \/ w # <<>>

\* a release that wakes the waiter that came last
LastUnwoken(w) ==
  IF \E i \in 1..Len(w) : ~w[i].woken
  THEN CHOOSE i \in 1..Len(w) : ~w[i].woken /\ \A j \in (i + 1)..Len(w) : w[j].woken
  ELSE 0

\* _wake_up_next: for fut in self._waiters: if not fut.done()
FirstUnwoken(w) ==
  IF \E i \in 1..Len(w) : ~w[i].woken
  THEN CHOOSE i \in 1..Len(w) : ~w[i].woken /\ \A j \in 1..(i - 1) : w[j].woken
  ELSE 0

WakeUpNext(v, w) ==
  IF FirstUnwoken(w) = 0
  THEN [value |-> v, waiters |-> w]
  ELSE [value |-> v - 1, waiters |-> [w EXCEPT ![FirstUnwoken(w)].woken = TRUE]]

Release(v, w) == WakeUpNext(v + 1, w)

Enqueue(w, id) == Append(w, [id |-> id, woken |-> FALSE])

IsWoken(w, id) == \E i \in 1..Len(w) : w[i].id = id /\ w[i].woken

IsQueued(w, id) == \E i \in 1..Len(w) : w[i].id = id /\ ~w[i].woken

\* the woken waiter leaves the queue and passes on a permit that is left
AfterWake(v, w, id) ==
  LET i == CHOOSE k \in 1..Len(w) :
             /\ w[k].id = id /\ w[k].woken
             /\ \A j \in 1..(k - 1) : ~(w[j].id = id /\ w[j].woken)
      rest == SubSeq(w, 1, i - 1) \o SubSeq(w, i + 1, Len(w))
  IN IF v > 0 THEN WakeUpNext(v, rest) ELSE [value |-> v, waiters |-> rest]

(* ------------------------------------------------------------------ *)
(* Admission of concurrent requests                                    *)
(* ------------------------------------------------------------------ *)
Lookups == 1..NumLookups

\* /fetch-page requests are interchangeable: ft counts the requests at each
\* position of fetch_page() and their waiters carry this one name
AnyFetch == 0

\* _get_browser() up to its first await, then browser.new_context(): the
\* caller that finds _browser set opens its context, the caller that finds
\* None starts a launch of its own
EnterBrowser(task) ==
  IF browser = 0 THEN [task EXCEPT !.pc = "launching"] ELSE [task EXCEPT !.pc = "ctx"]

ContextsAfterEnter == IF browser = 0 THEN openCtx ELSE openCtx + 1

\* lookup(): a request arrives and reaches "async with _lookup_semaphore";
\* requests are numbered in their order of arrival
LookupArrives(l) ==
  /\ lk[l].pc = "idle"
  /\ \A k \in 1..(l - 1) : lk[k].pc # "idle"
  /\ IF Locked(lookupValue, lookupWaiters)
     THEN /\ lookupWaiters' = Enqueue(lookupWaiters, l)
          /\ lk' = [lk EXCEPT ![l].pc = "wait"]
          /\ UNCHANGED <<lookupValue, openCtx>>
     ELSE /\ lookupValue' = lookupValue - 1
          /\ lk' = [lk EXCEPT ![l] = EnterBrowser(@)]
          /\ openCtx' = ContextsAfterEnter
          /\ UNCHANGED lookupWaiters
  /\ UNCHANGED <<routeVars, browser, launches, fetchValue, fetchWaiters, ft>>
  /\ UNCHANGED offlineVars

\* lookup(): the waiter woken by a release resumes inside the semaphore
LookupAdmitted(l) ==
  /\ lk[l].pc = "wait"
  /\ IsWoken(lookupWaiters, l)
  /\ lookupValue' = AfterWake(lookupValue, lookupWaiters, l).value
  /\ lookupWaiters' = AfterWake(lookupValue, lookupWaiters, l).waiters
  /\ lk' = [lk EXCEPT ![l] = EnterBrowser(@)]
  /\ openCtx' = ContextsAfterEnter
  /\ UNCHANGED <<routeVars, browser, launches, fetchValue, fetchWaiters, ft>>
  /\ UNCHANGED offlineVars

\* _get_browser(): _browser = await _playwright.chromium.launch(...) of a
\* caller that had found _browser None; then browser.new_context()
LookupBrowserLaunched(l) ==
  /\ lk[l].pc = "launching"
  /\ launches' = CountLaunch(launches)
  /\ browser' = CountLaunch(launches)
  /\ openCtx' = openCtx + 1
  /\ lk' = [lk EXCEPT ![l].pc = "ctx"]
  /\ UNCHANGED <<routeVars, semVars, ft>>
  /\ UNCHANGED offlineVars

\* The routed attempt ends: _do_lookup_routed has run one provider or two, one
\* after the other, each in a context of its own that its finally clause
\* closed. The semaphore is released and lookup() returns, raises, or repeats
\* the attempt after a timeout, entering the semaphore again.
LookupAttemptEnds(l) ==
  /\ lk[l].pc = "ctx"
  /\ \E timeout \in BOOLEAN :
       LET rel == Release(lookupValue, lookupWaiters) IN
         IF timeout /\ lk[l].attempt < MAX_RETRIES
         THEN IF Locked(rel.value, rel.waiters)
              THEN /\ lookupValue' = rel.value
                   /\ lookupWaiters' = Enqueue(rel.waiters, l)
                   /\ lk' = [lk EXCEPT ![l] = [pc |-> "wait", attempt |-> @.attempt + 1]]
                   /\ openCtx' = openCtx - 1
              ELSE /\ lookupValue' = rel.value - 1
                   /\ lookupWaiters' = rel.waiters
                   /\ lk' = [lk EXCEPT ![l] = [pc |-> "ctx", attempt |-> @.attempt + 1]]
                   /\ openCtx' = openCtx
         ELSE /\ lookupValue' = rel.value
              /\ lookupWaiters' = rel.waiters
              /\ lk' = [lk EXCEPT ![l] = [pc |-> "done", attempt |-> 0]]
              /\ openCtx' = openCtx - 1
  /\ UNCHANGED <<routeVars, browser, launches, fetchValue, fetchWaiters, ft>>
  /\ UNCHANGED offlineVars

\* _get_browser() up to its first await, then browser.new_context(), for one
\* more /fetch-page request
FetchEnterBrowser(c) ==
  IF browser = 0 THEN [c EXCEPT !.launching = @ + 1] ELSE [c EXCEPT !.ctx = @ + 1]

\* fetch_page(): a request arrives and reaches "async with _fetch_semaphore"
FetchArrives ==
  /\ ft.idle > 0
  /\ IF Locked(fetchValue, fetchWaiters)
     THEN /\ fetchWaiters' = Enqueue(fetchWaiters, AnyFetch)
          /\ ft' = [ft EXCEPT !.idle = @ - 1]
          /\ UNCHANGED <<fetchValue, openCtx>>
     ELSE /\ fetchValue' = fetchValue - 1
          /\ ft' = FetchEnterBrowser([ft EXCEPT !.idle = @ - 1])
          /\ openCtx' = ContextsAfterEnter
          /\ UNCHANGED fetchWaiters
  /\ UNCHANGED <<routeVars, browser, launches, lookupValue, lookupWaiters, lk>>
  /\ UNCHANGED offlineVars

\* fetch_page(): a waiter woken by a release resumes inside the semaphore
FetchAdmitted ==
  /\ IsWoken(fetchWaiters, AnyFetch)
  /\ fetchValue' = AfterWake(fetchValue, fetchWaiters, AnyFetch).value
  /\ fetchWaiters' = AfterWake(fetchValue, fetchWaiters, AnyFetch).waiters
  /\ ft' = FetchEnterBrowser(ft)
  /\ openCtx' = ContextsAfterEnter
  /\ UNCHANGED <<routeVars, browser, launches, lookupValue, lookupWaiters, lk>>
  /\ UNCHANGED offlineVars

\* _get_browser() called by fetch_page(): the launch of a caller that had
\* found _browser None completes; then browser.new_context()
FetchBrowserLaunched ==
  /\ ft.launching > 0
  /\ launches' = CountLaunch(launches)
  /\ browser' = CountLaunch(launches)
  /\ openCtx' = openCtx + 1
  /\ ft' = [ft EXCEPT !.launching = @ - 1, !.ctx = @ + 1]
  /\ UNCHANGED <<routeVars, semVars, lk>>
  /\ UNCHANGED offlineVars

\* fetch_page(): the page is returned or the exception turned into a 500;
\* the finally clause closes the context and the semaphore is released
FetchEnds ==
  /\ ft.ctx > 0
  /\ openCtx' = openCtx - 1
  /\ fetchValue' = Release(fetchValue, fetchWaiters).value
  /\ fetchWaiters' = Release(fetchValue, fetchWaiters).waiters
  /\ ft' = [ft EXCEPT !.ctx = @ - 1, !.done = @ + 1]
  /\ UNCHANGED <<routeVars, browser, launches, lookupValue, lookupWaiters, lk>>
  /\ UNCHANGED offlineVars

InitAdm ==
  /\ strategy = "auto"
  /\ screenshotOnError = FALSE
  /\ idType = "VIN"
  /\ InitRoute
  /\ InitShared
  /\ InitOffline
  /\ lk = [l \in Lookups |-> [pc |-> "idle", attempt |-> 0]]
  /\ ft = [idle |-> NumFetches, launching |-> 0, ctx |-> 0, done |-> 0]

NextAdm ==
  \/ \E l \in Lookups : LookupArrives(l)
  \/ \E l \in Lookups : LookupAdmitted(l)
  \/ \E l \in Lookups : LookupBrowserLaunched(l)
  \/ \E l \in Lookups : LookupAttemptEnds(l)
  \/ FetchArrives
  \/ FetchAdmitted
  \/ FetchBrowserLaunched
  \/ FetchEnds

SpecAdm == InitAdm /\ [][NextAdm]_vars

(* ------------------------------------------------------------------ *)
(* Specification of the queue of lookups: /lookup requests only, more  *)
(* of them than permits and waiting places                             *)
(* ------------------------------------------------------------------ *)
NumArrivals == 4

Arrivals == 1..NumArrivals

InitQueue ==
  /\ strategy = "auto"
  /\ screenshotOnError = FALSE
  /\ idType = "VIN"
  /\ InitRoute
  /\ InitShared
  /\ InitOffline
  /\ lk = [l \in Arrivals |-> [pc |-> "idle", attempt |-> 0]]
  /\ ft = [idle |-> 0, launching |-> 0, ctx |-> 0, done |-> 0]

NextQueue ==
  \/ \E l \in Arrivals : LookupArrives(l)
  \/ \E l \in Arrivals : LookupAdmitted(l)
  \/ \E l \in Arrivals : LookupBrowserLaunched(l)
  \/ \E l \in Arrivals : LookupAttemptEnds(l)

SpecQueue == InitQueue /\ [][NextQueue]_vars

(* ------------------------------------------------------------------ *)
(* Strings are sequences of characters                                 *)
(* ------------------------------------------------------------------ *)
Digits == {"0", "1", "2", "3", "4", "5", "6", "7", "8", "9"}

UpperLetters ==
  {"A", "B", "C", "D", "E", "F", "G", "H", "I", "J", "K", "L", "M",
   "N", "O", "P", "Q", "R", "S", "T", "U", "V", "W", "X", "Y", "Z"}

LowerLetters ==
  {"a", "b", "c", "d", "e", "f", "g", "h", "i", "j", "k", "l", "m",
   "n", "o", "p", "q", "r", "s", "t", "u", "v", "w", "x", "y", "z"}

\* c in s
Has(s, c) == \E i \in 1..Len(s) : s[i] = c

\* re.search(r"\d{n,}", s)
HasDigitRun(s, n) ==
  \E i \in 1..(Len(s) - n + 1) : \A j \in i..(i + n - 1) : s[j] \in Digits

\* c * n
Repeat(c, n) == [i \in 1..n |-> c]

(* ------------------------------------------------------------------ *)
(* is_valid_gearbox_oem                                                *)
(* ------------------------------------------------------------------ *)
OemValidWhateverLength(c) ==
  IF c = <<>> \/ Len(c) < 6 THEN FALSE
  ELSE IF Has(c, "(") \/ Has(c, ")") THEN FALSE
  ELSE IF ~HasDigitRun(c, 3) THEN FALSE
  ELSE IF \E x \in {";", ":", "="} : Has(c, x) THEN FALSE
  ELSE TRUE

is_valid_gearbox_oem(c) ==
  IF c = <<>> \/ Len(c) < 6 THEN FALSE
  ELSE IF Has(c, "(") \/ Has(c, ")") THEN FALSE
  ELSE IF ~HasDigitRun(c, 3) THEN FALSE
  ELSE IF \E x \in {";", ":", "="} : Has(c, x) THEN FALSE
  ELSE IF Len(c) > 25 THEN FALSE
  ELSE TRUE

\* The strings the filter is tried on: a run of one character, at most one
\* further character, and a second run; the characters are a digit, a letter,
\* a hyphen and the five characters the filter looks for.
OemChars == {"7", "A", "-", "(", ")", ";", ":", "="}

OemRuns == {Repeat(c, n) : c \in OemChars, n \in 0..MaxRun}

OemCodes ==
  {a \o m \o b : a \in OemRuns, b \in OemRuns,
                 m \in {<<>>} \cup {<<c>> : c \in OemChars}}

\* verdict = is_valid_gearbox_oem(oem_code)
CheckOem ==
  /\ verdict = "none"
  /\ verdict' = IF is_valid_gearbox_oem(oem_code) THEN "valid" ELSE "invalid"
  /\ UNCHANGED <<oem_code, rankerVars, nav, laterVars, serviceVars, pageVars>>

\* no request is under way
InitServiceIdle ==
  /\ strategy = "auto"
  /\ screenshotOnError = FALSE
  /\ idType = "VIN"
  /\ InitRoute
  /\ InitShared
  /\ lk = <<>>
  /\ ft = [idle |-> 0, launching |-> 0, ctx |-> 0, done |-> 0]

InitOemFilter ==
  /\ oem_code \in OemCodes
  /\ verdict = "none"
  /\ ranker_input = <<>>
  /\ ranker_sorts = FALSE
  /\ ranker_pc = "idle"
  /\ ranker_result = <<>>
  /\ nav = NavIdle
  /\ InitLaterIdle
  /\ InitServiceIdle
  /\ InitPagesIdle

NextOemFilter == CheckOem

SpecOemFilter == InitOemFilter /\ [][NextOemFilter]_vars

(* ------------------------------------------------------------------ *)
(* Characters, case, whitespace                                        *)
(* A Cyrillic letter is written as its Latin key and an apostrophe.    *)
(* ------------------------------------------------------------------ *)

LatinUpper ==
  <<"A", "B", "C", "D", "E", "F", "G", "H", "I", "J", "K", "L", "M", "N",
   "O", "P", "Q", "R", "S", "T", "U", "V", "W", "X", "Y", "Z">>

LatinLower ==
  <<"a", "b", "c", "d", "e", "f", "g", "h", "i", "j", "k", "l", "m", "n",
   "o", "p", "q", "r", "s", "t", "u", "v", "w", "x", "y", "z">>

CyrillicUpper ==
  <<"A'", "B'", "V'", "G'", "D'", "E'", "ZH'", "Z'", "I'", "J'", "K'", "L'",
   "M'", "N'", "O'", "P'", "R'", "S'", "T'", "U'", "F'", "H'", "C'", "CH'",
   "SH'", "SCH'", "HARD'", "Y'", "SOFT'", "EH'", "YU'", "YA'", "YO'">>

CyrillicLower ==
  <<"a'", "b'", "v'", "g'", "d'", "e'", "zh'", "z'", "i'", "j'", "k'", "l'",
   "m'", "n'", "o'", "p'", "r'", "s'", "t'", "u'", "f'", "h'", "c'", "ch'",
   "sh'", "sch'", "hard'", "y'", "soft'", "eh'", "yu'", "ya'", "yo'">>

AllUpper == LatinUpper \o CyrillicUpper

AllLower == LatinLower \o CyrillicLower

Range(f) == {f[i] : i \in DOMAIN f}

\* [A-Z] under re.IGNORECASE
Letters == UpperLetters \cup LowerLetters

\* [A-Z0-9] and the same under re.IGNORECASE
UpperAlnum == UpperLetters \cup Digits

Alnum == Letters \cup Digits

\* \w
WordChars == Range(AllUpper) \cup Range(AllLower) \cup Digits \cup {"_"}

\* \s
Whitespace == {" "}

\* str.lower() and str.upper()
LowerOf(c) ==
  IF c \in Range(AllUpper) THEN AllLower[CHOOSE i \in DOMAIN AllUpper : AllUpper[i] = c]
  ELSE c

UpperOf(c) ==
  IF c \in Range(AllLower) THEN AllUpper[CHOOSE i \in DOMAIN AllLower : AllLower[i] = c]
  ELSE c

ToLower(s) == [i \in 1..Len(s) |-> LowerOf(s[i])]

ToUpper(s) == [i \in 1..Len(s) |-> UpperOf(s[i])]

\* str.strip()
Strip(s) ==
  LET kept == {i \in 1..Len(s) : s[i] \notin Whitespace} IN
    IF kept = {} THEN <<>>
    ELSE SubSeq(s, CHOOSE i \in kept : \A j \in kept : i <= j,
                   CHOOSE i \in kept : \A j \in kept : i >= j)

\* sub in s
Contains(s, sub) ==
  \E i \in 0..(Len(s) - Len(sub)) : SubSeq(s, i + 1, i + Len(sub)) = sub

\* s[:n]
Prefix(s, n) == SubSeq(s, 1, IF Len(s) < n THEN Len(s) ELSE n)

(* ------------------------------------------------------------------ *)
(* Regular expressions: a pattern is a sequence of items, each a       *)
(* character class repeated lo to hi times, greedily, with             *)
(* backtracking; after it comes nothing ("any"), the end of the string *)
(* ("end") or a word boundary ("wb")                                   *)
(* ------------------------------------------------------------------ *)
Item(cls, lo, hi) == [cls |-> cls, lo |-> lo, hi |-> hi]

IsWordAt(s, i) == i >= 1 /\ i <= Len(s) /\ s[i] \in WordChars

\* \b between s[i - 1] and s[i]
WordBoundary(s, i) == IsWordAt(s, i - 1) # IsWordAt(s, i)

TailOk(s, i, tail) ==
  IF tail = "end" THEN i = Len(s) + 1
  ELSE IF tail = "wb" THEN WordBoundary(s, i)
  ELSE TRUE

Max(S) == CHOOSE x \in S : \A y \in S : y <= x

Min(S) == CHOOSE x \in S : \A y \in S : x <= y

\* the number of characters of s from position i on that are in cls, up to hi
RunLength(s, i, cls, hi) ==
  Max({k \in 0..hi : i + k - 1 <= Len(s) /\ \A j \in i..(i + k - 1) : s[j] \in cls})

RECURSIVE Ends(_, _, _)
\* the positions after a match of p that starts at one of the positions from
Ends(s, from, p) ==
  IF p = <<>> THEN from
  ELSE Ends(s,
            UNION {{i + k : k \in Head(p).lo..RunLength(s, i, Head(p).cls, Head(p).hi)} :
                   i \in from},
            Tail(p))

\* p followed by tail matches at position i
CanMatch(s, i, p, tail) == \E e \in Ends(s, {i}, p) : TailOk(s, e, tail)

RECURSIVE MatchLen(_, _, _, _)
\* the first item of p takes the longest of the runs ks, the rest of p follows
LongestThenRest(s, i, p, tail, ks) ==
  IF ks = {} THEN 0 - 1 ELSE Max(ks) + MatchLen(s, i + Max(ks), Tail(p), tail)

\* the length of the match of p that starts at position i of s, or -1: each
\* item takes the longest run after which the rest of p still matches
MatchLen(s, i, p, tail) ==
  IF p = <<>> THEN (IF TailOk(s, i, tail) THEN 0 ELSE 0 - 1)
  ELSE LongestThenRest(s, i, p, tail,
                       {k \in Head(p).lo..RunLength(s, i, Head(p).cls, Head(p).hi) :
                          CanMatch(s, i + k, Tail(p), tail)})

\* re.match(r"^p$", s)
FullMatch(s, p) == MatchLen(s, 1, p, "end") # 0 - 1

\* the least element of S, or 0
FirstOf(S) == IF S = {} THEN 0 ELSE Min(S)

\* the first of the alternatives alts that matches at position i, or 0
FirstAlt(s, i, alts, lead, tail) ==
  FirstOf({a \in 1..Len(alts) :
             /\ lead = "wb" => WordBoundary(s, i)
             /\ MatchLen(s, i, alts[a], tail) >= 1})

\* the length of the match of alternative a at position i, 0 when a is 0
AltLen(s, i, alts, tail, a) == IF a = 0 THEN 0 ELSE MatchLen(s, i, alts[a], tail)

\* the length of the match at position i, or 0
MatchAt(s, i, alts, lead, tail) == AltLen(s, i, alts, tail, FirstAlt(s, i, alts, lead, tail))

RECURSIVE FindFrom(_, _, _, _, _)
\* a match of length n at position i is taken, then the search goes on
FindNext(s, i, alts, lead, tail, n) ==
  IF n = 0 THEN FindFrom(s, i + 1, alts, lead, tail)
  ELSE <<SubSeq(s, i, i + n - 1)>> \o FindFrom(s, i + n, alts, lead, tail)

\* re.findall from position i on: the matches, leftmost first, not overlapping
FindFrom(s, i, alts, lead, tail) ==
  IF i > Len(s) THEN <<>>
  ELSE FindNext(s, i, alts, lead, tail, MatchAt(s, i, alts, lead, tail))

FindAll(s, alts, lead, tail) == FindFrom(s, 1, alts, lead, tail)

RECURSIVE Split(_, _)
\* s is cut at its first separator, at position i, or not at all when i is 0
SplitAt(s, seps, i) ==
  IF i = 0 THEN <<s>>
  ELSE <<SubSeq(s, 1, i - 1)>> \o Split(SubSeq(s, i + 1, Len(s)), seps)

\* re.split(r"[seps]", s)
Split(s, seps) == SplitAt(s, seps, FirstOf({i \in 1..Len(s) : s[i] \in seps}))

Reverse(q) == [i \in 1..Len(q) |-> q[Len(q) + 1 - i]]

\* None, and the empty string: both are false where the code tests a string
None == <<>>

(* ------------------------------------------------------------------ *)
(* Further operations on strings                                       *)
(* ------------------------------------------------------------------ *)
Punctuation == {" ", "(", ")", ",", ".", "/", "-", ":", ";", "=", "[", "]"}

\* every character of the strings of this model
AnyChar == WordChars \cup Punctuation

\* a word matched letter by letter under re.IGNORECASE
Literal(w) == [i \in 1..Len(w) |-> Item({LowerOf(w[i]), UpperOf(w[i])}, 1, 1)]

RECURSIVE SubFrom(_, _, _, _, _, _)
\* a match of length n at position i is replaced, then the search goes on
SubNext(s, i, alts, lead, tail, repl, n) ==
  IF n = 0 THEN <<s[i]>> \o SubFrom(s, i + 1, alts, lead, tail, repl)
  ELSE repl \o SubFrom(s, i + n, alts, lead, tail, repl)

\* re.sub from position i on: every match is replaced by repl
SubFrom(s, i, alts, lead, tail, repl) ==
  IF i > Len(s) THEN <<>>
  ELSE SubNext(s, i, alts, lead, tail, repl, MatchAt(s, i, alts, lead, tail))

Sub(s, alts, lead, tail, repl) == SubFrom(s, 1, alts, lead, tail, repl)

\* the greatest element of S, or 0
LastOf(S) == IF S = {} THEN 0 ELSE Max(S)

\* the index of the last c in s, or 0
LastIndexOf(s, c) == LastOf({i \in 1..Len(s) : s[i] = c})

CountIn(s, cls) == Cardinality({i \in 1..Len(s) : s[i] \in cls})

(* ------------------------------------------------------------------ *)
(* Manufacturer families                                               *)
(* ------------------------------------------------------------------ *)

\* the set without the prefixes of Volkswagen commercial vehicles
VW_GROUP_WMI_NO_COMMERCIAL ==
  {<<"W", "V", "W">>, <<"W", "V", "3">>, <<"W", "V", "6">>, <<"W", "A", "U">>,
   <<"W", "A", "1">>, <<"T", "M", "B">>, <<"X", "W", "8">>,
   <<"V", "S", "S">>, <<"V", "S", "6">>, <<"V", "S", "7">>,
   <<"W", "P", "0">>, <<"W", "P", "1">>, <<"9", "B", "W">>,
   <<"8", "A", "W">>, <<"1", "V", "W">>}

VW_GROUP_WMI ==
  {<<"W", "V", "W">>, <<"W", "V", "1">>, <<"W", "V", "2">>,
   <<"W", "V", "3">>, <<"W", "V", "6">>, <<"W", "A", "U">>,
   <<"W", "A", "1">>, <<"T", "M", "B">>, <<"X", "W", "8">>,
   <<"V", "S", "S">>, <<"V", "S", "6">>, <<"V", "S", "7">>,
   <<"W", "P", "0">>, <<"W", "P", "1">>, <<"9", "B", "W">>,
   <<"8", "A", "W">>, <<"1", "V", "W">>}

is_vw_group(vin) ==
  vin # <<>> /\ Len(vin) >= 3 /\ ToUpper(Prefix(vin, 3)) \in VW_GROUP_WMI

FORD_WMI ==
  {<<"1", "F", "T">>, <<"1", "F", "A">>, <<"1", "F", "B">>,
   <<"1", "F", "C">>, <<"1", "F", "D">>, <<"1", "F", "M">>,
   <<"2", "F", "T">>, <<"2", "F", "A">>, <<"2", "F", "B">>,
   <<"3", "F", "A">>, <<"3", "F", "B">>, <<"3", "F", "E">>,
   <<"W", "F", "0">>, <<"S", "A", "J">>, <<"S", "A", "L">>,
   <<"Z", "6", "F">>, <<"Z", "6", "R">>, <<"X", "9", "F">>,
   <<"M", "A", "J">>}

is_ford(vin) ==
  vin # <<>> /\ Len(vin) >= 3 /\ ToUpper(Prefix(vin, 3)) \in FORD_WMI

\* \b(\d[A-Z]{1,3}\d{1,3}[A-Z]{0,2})\b
FORD_TRANS_MODEL_RE ==
  <<Item(Digits, 1, 1), Item(UpperLetters, 1, 3), Item(Digits, 1, 3),
    Item(UpperLetters, 0, 2)>>

\* \b([A-Z]{1,4}\d[A-Z0-9]{0,4})\b
FORD_TRANS_MODEL_EU_RE ==
  <<Item(UpperLetters, 1, 4), Item(Digits, 1, 1), Item(UpperAlnum, 0, 4)>>

FORD_EU_NOISE == {<<"A", "T">>, <<"M", "T">>, <<"C", "V", "T">>}

\* a token of the second strategy of extract_ford_transmission_model
IsFordEuToken(t) ==
  /\ Len(t) >= 2
  /\ Len(t) <= 8
  /\ FullMatch(t, <<Item(UpperAlnum, 1, Len(t))>>)
  /\ CountIn(t, Digits) > 0
  /\ CountIn(t, UpperLetters) > 0
  /\ t \notin FORD_EU_NOISE

\* the element i of q, None when i is 0
Nth(q, i) == IF i = 0 THEN None ELSE q[i]

\* a if a is not None, else b
OrElse(a, b) == IF a # None THEN a ELSE b

\* [p.strip() for p in parts]
StripAll(parts) == [i \in 1..Len(parts) |-> Strip(parts[i])]

\* Strategy 1: matches[-1] of the numeric-prefix pattern
FordNumericPrefix(matches) == Nth(matches, Len(matches))

\* Strategy 2: the first of the reversed tokens that looks like a model
FordFirstToken(tokens) ==
  Nth(tokens, FirstOf({i \in 1..Len(tokens) : IsFordEuToken(tokens[i])}))

\* Strategy 3: the first of the reversed matches of the EU pattern that is no noise
FordFirstEu(eu) ==
  Nth(eu, FirstOf({i \in 1..Len(eu) : eu[i] \notin FORD_EU_NOISE /\ Len(eu[i]) >= 2}))

\* the three strategies on the upper-cased string
FordStrategies(upper) ==
  OrElse(FordNumericPrefix(FindAll(upper, <<FORD_TRANS_MODEL_RE>>, "wb", "wb")),
         OrElse(FordFirstToken(StripAll(Reverse(Split(upper, {"/", "-"})))),
                FordFirstEu(Reverse(FindAll(upper, <<FORD_TRANS_MODEL_EU_RE>>, "wb", "wb")))))

extract_ford_transmission_model(transmission_str) ==
  IF transmission_str = <<>> THEN None ELSE FordStrategies(ToUpper(transmission_str))

(* ------------------------------------------------------------------ *)
(* Model candidate validation filters                                  *)
(* ------------------------------------------------------------------ *)
\* ^[a-z]{1,6}\d{2,3}[a-z]?$
CSS_HASH_RE == <<Item(LowerLetters, 1, 6), Item(Digits, 2, 3), Item(LowerLetters, 0, 1)>>

\* ^[A-Z]{2,4}\d{2}[A-Z]{1,2}$ under re.I
BODY_CODE_RE == <<Item(Letters, 2, 4), Item(Digits, 2, 2), Item(Letters, 1, 2)>>

\* ^\d{2}\.\d{4}$
DATE_RE == <<Item(Digits, 2, 2), Item({"."}, 1, 1), Item(Digits, 4, 4)>>

GEO_NAMES ==
  {<<"a", "m", "e", "r", "i", "c", "a">>,
   <<"n", "o", "r", "t", "h", " ", "a", "m", "e", "r", "i", "c", "a">>,
   <<"s", "o", "u", "t", "h", " ", "a", "m", "e", "r", "i", "c", "a">>,
   <<"e", "u", "r", "o", "p", "e">>,
   <<"e", "u", "r", "o", "p", "a">>,
   <<"r", "u", "s", "s", "i", "a">>,
   <<"r'", "o'", "s'", "s'", "i'", "ya'">>,
   <<"a", "s", "i", "a">>,
   <<"a'", "z'", "i'", "ya'">>,
   <<"j", "a", "p", "a", "n">>,
   <<"ya'", "p'", "o'", "n'", "i'", "ya'">>,
   <<"c", "h", "i", "n", "a">>,
   <<"k'", "i'", "t'", "a'", "j'">>,
   <<"k", "o", "r", "e", "a">>,
   <<"k'", "o'", "r'", "e'", "ya'">>,
   <<"g", "e", "n", "e", "r", "a", "l">>,
   <<"d", "o", "m", "e", "s", "t", "i", "c">>,
   <<"e", "x", "p", "o", "r", "t">>}

is_css_hash(token) == FullMatch(ToLower(Strip(token)), CSS_HASH_RE)

is_body_code(token) ==
  /\ FullMatch(Strip(token), BODY_CODE_RE)
  /\ CountIn(Strip(token), Digits) <= 2

is_geo_name(token) == ToLower(Strip(token)) \in GEO_NAMES

is_date_string(token) == FullMatch(Strip(token), DATE_RE)

\* the tests of _is_valid_model_candidate on t = token.strip()
PassesModelFilters(t) ==
  IF t = <<>> \/ Len(t) < 2 THEN FALSE
  ELSE IF is_css_hash(t) THEN FALSE
  ELSE IF is_body_code(t) THEN FALSE
  ELSE IF is_geo_name(t) THEN FALSE
  ELSE IF is_date_string(t) THEN FALSE
  ELSE TRUE

is_valid_model_candidate(token) == PassesModelFilters(Strip(token))

(* ------------------------------------------------------------------ *)
(* _extract_model_from_kpp_description                                 *)
(* ------------------------------------------------------------------ *)
CyrillicLetters == Range(CyrillicUpper) \cup Range(CyrillicLower)


\* _KPP_DESC_WORDS_RE, between word boundaries and under re.IGNORECASE; n is
\* the length of the string searched
KPP_DESC_WORDS_RE(n) ==
  <<Literal(<<"T'", "R'", "A'", "N'", "S'", "M'", "I'", "S'", "S'", "I'">>) \o <<Item(CyrillicLetters, 0, n)>>,
    Literal(<<"R'", "U'", "CH'", "N'", "O'", "G'", "O'">>),
    Literal(<<"U'", "P'", "R'", "A'", "V'", "L'", "E'", "N'", "I'">>) \o <<Item(CyrillicLetters, 0, n)>>,
    Literal(<<"A'", "V'", "T'", "O'", "M'", "A'", "T'", "I'", "CH'">>) \o <<Item(CyrillicLetters, 0, n)>>,
    Literal(<<"M'", "E'", "H'", "A'", "N'", "I'", "CH'">>) \o <<Item(CyrillicLetters, 0, n)>>,
    Literal(<<"T", "R", "A", "N", "S", "M", "I", "S", "S", "I", "O", "N">>),
    Literal(<<"M", "A", "N", "U", "A", "L">>),
    Literal(<<"A", "U", "T", "O", "M", "A", "T", "I", "C">>),
    Literal(<<"A", "U", "T", "O">>),
    Literal(<<"S", "P", "E", "E", "D">>),
    Literal(<<"S", "P", "D">>),
    Literal(<<"M", "A", "N">>),
    Literal(<<"S'", "T'", "U'", "P'", "E'", "N'", "CH'">>) \o <<Item(CyrillicLetters, 0, n)>>>>

\* \d+\s*-?\s*(ступенч|speed|spd) under re.IGNORECASE
KPP_DESC_SPEED_RE(n) ==
  LET lead == <<Item(Digits, 1, n), Item(Whitespace, 0, n), Item({"-"}, 0, 1),
                Item(Whitespace, 0, n)>>
  IN <<lead \o Literal(<<"s'", "t'", "u'", "p'", "e'", "n'", "ch'">>),
       lead \o Literal(<<"s", "p", "e", "e", "d">>),
       lead \o Literal(<<"s", "p", "d">>)>>

KPP_MODEL_NOISE ==
  {<<"A", "T">>,
   <<"M", "T">>,
   <<"C", "V", "T">>,
   <<"S", "P", "D">>,
   <<"M", "A", "N">>,
   <<"5", "S", "P", "D">>,
   <<"6", "S", "P", "D">>,
   <<"4", "S", "P", "D">>}

\* the group of each match of a pattern that wraps it in one character on each side
InnerGroups(found) == [i \in 1..Len(found) |-> SubSeq(found[i], 2, Len(found[i]) - 1)]

\* re.findall(r"\(([A-Z0-9]{2,6})\)", kpp_str, re.IGNORECASE)
ParenCodes(kpp_str) ==
  InnerGroups(FindAll(kpp_str, <<<<Item({"("}, 1, 1), Item(Alnum, 2, 6), Item({")"}, 1, 1)>>>>,
                      "any", "any"))

\* the three substitutions and the findall of the second strategy; n = len(kpp_str)
KppDescTokensOf(kpp_str, n) ==
  FindAll(Sub(Sub(Sub(kpp_str, <<<<Item({"("}, 1, 1), Item(AnyChar \ {")"}, 0, n),
                                   Item({")"}, 1, 1)>>>>, "any", "any", <<" ">>),
                  KPP_DESC_WORDS_RE(n), "wb", "wb", <<" ">>),
              KPP_DESC_SPEED_RE(n), "any", "any", <<" ">>),
          <<<<Item(UpperLetters, 1, 1), Item(UpperAlnum, 1, 8)>>,
            <<Item(UpperAlnum, 2, 8)>>>>, "any", "any")

KppDescTokens(kpp_str) == KppDescTokensOf(kpp_str, Len(kpp_str))

\* the first token with a letter and a digit that is no noise, or None
FirstModelToken(tokens) ==
  Nth(tokens, FirstOf({i \in 1..Len(tokens) :
                         /\ CountIn(tokens[i], Letters) > 0
                         /\ CountIn(tokens[i], Digits) > 0
                         /\ ToUpper(tokens[i]) \notin KPP_MODEL_NOISE}))

\* the three strategies of _extract_model_from_kpp_description in their order
KppDescStrategies(kpp_str, paren_codes, factory_code, after_comma, token) ==
  IF /\ Has(kpp_str, ",")
     /\ FullMatch(after_comma, <<Item(UpperLetters, 1, 1), Item(UpperAlnum, 1, 5)>>)
  THEN [model |-> after_comma, factory |-> factory_code]
  ELSE IF token # None
  THEN [model |-> token, factory |-> factory_code]
  ELSE IF /\ Len(paren_codes) = 1
          /\ CountIn(paren_codes[1], Digits) > 0
          /\ CountIn(paren_codes[1], Letters) > 0
  THEN [model |-> paren_codes[1], factory |-> None]
  ELSE [model |-> None, factory |-> factory_code]

\* factory_code = paren_codes[0] if paren_codes else None
KppDescWithParens(kpp_str, paren_codes) ==
  KppDescStrategies(kpp_str, paren_codes, Nth(paren_codes, IF paren_codes # <<>> THEN 1 ELSE 0),
                    Strip(SubSeq(kpp_str, LastIndexOf(kpp_str, ",") + 1, Len(kpp_str))),
                    FirstModelToken(KppDescTokens(kpp_str)))

\* returns (model, factory_code)
extract_model_from_kpp_description(kpp_str) ==
  IF kpp_str = <<>> THEN [model |-> None, factory |-> None]
  ELSE KppDescWithParens(kpp_str, ParenCodes(kpp_str))

(* ------------------------------------------------------------------ *)
(* _extract_model_from_aggregates                                      *)
(* ------------------------------------------------------------------ *)

AGGREGATE_KEYWORDS ==
  {<<"k'", "p'", ":">>,
   <<"k'", "p'", " ", ":">>,
   <<"k'", "o'", "r'", "o'", "b'", "k'">>,
   <<"t", "r", "a", "n", "s", "m", "i", "s", "s", "i", "o", "n">>,
   <<"g", "e", "t", "r", "i", "e", "b", "e">>}

KP_LABEL == <<"k'", "p'">>

TRANSMISSION_LABEL == <<"t", "r", "a", "n", "s", "m", "i", "s", "s", "i", "o", "n">>

GETRIEBE_LABEL == <<"g", "e", "t", "r", "i", "e", "b", "e">>

\* the first element of found, or None
FirstFound(found) == IF found = <<>> THEN None ELSE found[1]

\* re.search: the first match, or None
Search(s, alts, lead, tail) == FirstFound(FindAll(s, alts, lead, tail))

\* (?:кп|КП|transmission|getriebe)\S*\s*[:]\s*(\d{6}) under re.IGNORECASE
AGGREGATE_LABEL_RE(n) ==
  LET rest == <<Item(AnyChar \ Whitespace, 0, n), Item(Whitespace, 0, n), Item({":"}, 1, 1),
                Item(Whitespace, 0, n), Item(Digits, 6, 6)>>
  IN <<Literal(KP_LABEL) \o rest,
       Literal(TRANSMISSION_LABEL) \o rest,
       Literal(GETRIEBE_LABEL) \o rest>>

\* m.group(1) of the labelled pattern: the six digits that end the match
LastSix(labelled) ==
  IF labelled = None THEN None ELSE SubSeq(labelled, Len(labelled) - 5, Len(labelled))

\* the model one part of the aggregates field gives, or None
AggregatePartModel(part) ==
  IF ~\E kw \in AGGREGATE_KEYWORDS : Contains(ToLower(part), kw) THEN None
  ELSE OrElse(Search(part, <<<<Item(Digits, 3, 3), Item({"."}, 1, 1),
                               Item(Digits, 3, 3)>>>>, "any", "any"),
              OrElse(LastSix(Search(part, AGGREGATE_LABEL_RE(Len(part)), "any", "any")),
                     Search(part, <<<<Item(Digits, 6, 6)>>>>, "wb", "wb")))

\* the model of the first part that gives one
FirstPartModel(models) == Nth(models, FirstOf({i \in 1..Len(models) : models[i] # None}))

\* the model of each part
PartModels(parts) == [i \in 1..Len(parts) |-> AggregatePartModel(parts[i])]

extract_model_from_aggregates(text) ==
  IF text = <<>> THEN None ELSE FirstPartModel(PartModels(Split(text, {";"})))

(* ------------------------------------------------------------------ *)
(* Candidate rows, their filter and their ranking                      *)
(* ------------------------------------------------------------------ *)
\* re.match(r"^[A-Z]{2,5}\(\d+[A-Z]?\)$") or
\* re.match(r"^[A-Z]{2,4}\d{1,3}$") and len(code) <= 6, under re.IGNORECASE
is_factory_code(code) ==
  IF code = <<>> THEN FALSE
  ELSE IF FullMatch(code, <<Item(Letters, 2, 5), Item({"("}, 1, 1), Item(Digits, 1, Len(code)),
                            Item(Letters, 0, 1), Item({")"}, 1, 1)>>) THEN TRUE
  ELSE IF FullMatch(code, <<Item(Letters, 2, 4), Item(Digits, 1, 3)>>) /\ Len(code) <= 6 THEN TRUE
  ELSE FALSE

\* the characters of the strings of this model in the order of their code points
CodeOrder ==
  <<" ", "(", ")", ",", "-", ".", "/", "0", "1", "2", "3", "4",
   "5", "6", "7", "8", "9", ":", ";", "=", "A", "B", "C", "D", "E", "F",
   "G", "H", "I", "J", "K", "L", "M", "N", "O", "P", "Q", "R", "S", "T",
   "U", "V", "W", "X", "Y", "Z", "[", "]", "_", "a", "b", "c", "d", "e",
   "f", "g", "h", "i", "j", "k", "l", "m", "n", "o", "p", "q", "r", "s",
   "t", "u", "v", "w", "x", "y", "z", "YO'", "A'", "B'", "V'", "G'", "D'",
   "E'", "ZH'", "Z'", "I'", "J'", "K'", "L'", "M'", "N'", "O'", "P'", "R'",
   "S'", "T'", "U'", "F'", "H'", "C'", "CH'", "SH'", "SCH'", "HARD'", "Y'",
   "SOFT'", "EH'", "YU'", "YA'", "a'", "b'", "v'", "g'", "d'", "e'", "zh'",
   "z'", "i'", "j'", "k'", "l'", "m'", "n'", "o'", "p'", "r'", "s'", "t'",
   "u'", "f'", "h'", "c'", "ch'", "sh'", "sch'", "hard'", "y'", "soft'",
   "eh'", "yu'", "ya'", "yo'">>

CodePoint(c) == CHOOSE i \in 1..Len(CodeOrder) : CodeOrder[i] = c

\* a < b for Python strings
StrLess(a, b) ==
  \E i \in 1..(Len(b)) :
    /\ \A j \in 1..(i - 1) : j <= Len(a) /\ a[j] = b[j]
    /\ \/ i = Len(a) + 1
       \/ i <= Len(a) /\ CodePoint(a[i]) < CodePoint(b[i])

OEM_INCLUDE_PATTERNS ==
  { <<"k'", "p'", "p'">>,
    <<"a'", "k'", "p'", "p'">>,
    <<"k'", "o'", "r'", "o'", "b'", "k'">>,
    <<"k'", "o'", "r'", "o'", "b'", "k'", "a'", " ", "p'", "e'", "r'", "e'", "d'", "a'", "ch'">>,
    <<"k'", "o'", "r'", "o'", "b'", "k'", "a'", " ", "p'", "e'", "r'", "e'", "d'", "a'", "ch'", " ", "v'", " ", "s'", "b'", "o'", "r'", "e'">>,
    <<"m'", "k'", "p'">>,
    <<"a'", "k'", "p'">>,
    <<"v'", "a'", "r'", "i'", "a'", "t'", "o'", "r'">>,
    <<"v'", "a'", "r'", "i'", "a'", "t'", "o'", "r'", " ", "v'", " ", "s'", "b'", "o'", "r'", "e'">>,
    <<"c", "v", "t">>,
    <<"t'", "r'", "a'", "n'", "s'", "m'", "i'", "s'", "s'", "i'", "ya'">>,
    <<"t", "r", "a", "n", "s", "m", "i", "s", "s", "i", "o", "n">>,
    <<"g", "e", "a", "r", "b", "o", "x">>,
    <<"g", "e", "a", "r", " ", "b", "o", "x">>,
    <<"a", "t", " ", "t", "r", "a", "n", "s", "m", "i", "s", "s", "i", "o", "n">>,
    <<"m", "t", " ", "t", "r", "a", "n", "s", "m", "i", "s", "s", "i", "o", "n">>,
    <<"a'", "v'", "t'", "o'", "m'", "a'", "t'", "i'", "ch'", "e'", "s'", "k'", "a'", "ya'", " ", "k'", "o'", "r'", "o'", "b'", "k'", "a'">>,
    <<"m'", "e'", "h'", "a'", "n'", "i'", "ch'", "e'", "s'", "k'", "a'", "ya'", " ", "k'", "o'", "r'", "o'", "b'", "k'", "a'">>,
    <<"t", "r", "a", "n", "s", "a", "x", "l", "e">> }

OEM_EXCLUDE_PATTERNS ==
  { <<"m'", "a'", "s'", "l'", "o'">>,
    <<"sh'", "a'", "j'", "b'">>,
    <<"f'", "i'", "k'", "s'", "a'", "t'", "o'", "r'">>,
    <<"sh'", "u'", "m'", "o'", "i'", "z'", "o'", "l'", "ya'", "c'">>,
    <<"b'", "o'", "l'", "t'">>,
    <<"g'", "a'", "j'", "k'">>,
    <<"u'", "p'", "l'", "o'", "t'", "n'">>,
    <<"p'", "r'", "o'", "k'", "l'", "a'", "d'", "k'">>,
    <<"s'", "a'", "l'", "soft'", "n'", "i'", "k'">>,
    <<"f'", "i'", "l'", "soft'", "t'", "r'">>,
    <<"d'", "a'", "t'", "ch'", "i'", "k'">>,
    <<"k'", "r'", "e'", "p'", "e'", "zh'">> }

OEM_PRIORITY_TERMS ==
  { <<"v'", " ", "s'", "b'", "o'", "r'", "e'">>,
    <<"t'", "r'", "a'", "n'", "s'", "m'", "i'", "s'", "s'", "i'", "ya'">>,
    <<"k'", "o'", "r'", "o'", "b'", "k'", "a'", " ", "p'", "e'", "r'", "e'", "d'", "a'", "ch'">>,
    <<"t", "r", "a", "n", "s", "a", "x", "l", "e", " ", "p", "a", "c", "k", "a", "g", "e">>,
    <<"t", "r", "a", "n", "s", "m", "i", "s", "s", "i", "o", "n", " ", "a", "s", "s", "y">>,
    <<"t", "r", "a", "n", "s", "a", "x", "l", "e", " ", "a", "s", "s", "y">> }

\* any(t in s for t in terms)
ContainsAny(s, terms) == \E t \in terms : Contains(s, t)

has_priority_term(name) == ContainsAny(ToLower(name), OEM_PRIORITY_TERMS)

\* a candidate row (oem, name)
Row(oem, name) == [oem |-> oem, name |-> name]

\* the rows whose name has an include pattern, excluded or not
NameFilterIncludeOnly(candidates) ==
  SelectSeq(candidates, LAMBDA x : ContainsAny(ToLower(x.name), OEM_INCLUDE_PATTERNS))

\* the rows whose name has no exclude pattern and has an include pattern, in their order
NameFilter(candidates) ==
  LET Keep(x) == /\ ~ContainsAny(ToLower(x.name), OEM_EXCLUDE_PATTERNS)
                 /\ ContainsAny(ToLower(x.name), OEM_INCLUDE_PATTERNS)
  IN SelectSeq(candidates, Keep)

\* key=lambda x: (0 if _has_priority_term(x[1]) else 1, x[1])
KeyLess(x, y) ==
  LET px == IF has_priority_term(x.name) THEN 0 ELSE 1
      py == IF has_priority_term(y.name) THEN 0 ELSE 1
  IN px < py \/ (px = py /\ StrLess(x.name, y.name))

\* list.sort(key=...): stable, rows with equal keys keep their order
SortByKey(q) ==
  LET rank(i) == Cardinality({j \in 1..Len(q) :
                    KeyLess(q[j], q[i]) \/ (~KeyLess(q[i], q[j]) /\ j < i)}) + 1
  IN [k \in 1..Len(q) |-> q[CHOOSE i \in 1..Len(q) : rank(i) = k]]

filter_oem_candidates(candidates, sort_by_priority) ==
  IF sort_by_priority THEN SortByKey(NameFilter(candidates)) ELSE NameFilter(candidates)

(* ------------------------------------------------------------------ *)
(* Specification of one call of _filter_oem_candidates                 *)
(* ------------------------------------------------------------------ *)
\* longest list of candidates tried
MaxCandidates == 3

\* names of parts: Oil filter; Коробка передач в сборе; Вариатор; Фильтр АКПП;
\* АКПП; transmission assy
PartNames ==
  { <<"O", "i", "l", " ", "f", "i", "l", "t", "e", "r">>,
    <<"K'", "o'", "r'", "o'", "b'", "k'", "a'", " ", "p'", "e'", "r'", "e'", "d'", "a'", "ch'",
      " ", "v'", " ", "s'", "b'", "o'", "r'", "e'">>,
    <<"V'", "a'", "r'", "i'", "a'", "t'", "o'", "r'">>,
    <<"F'", "i'", "l'", "soft'", "t'", "r'", " ", "A'", "K'", "P'", "P'">>,
    <<"A'", "K'", "P'", "P'">>,
    <<"t", "r", "a", "n", "s", "m", "i", "s", "s", "i", "o", "n", " ", "a", "s", "s", "y">> }

\* the code of the candidate at position i: X1, X2, ...
PositionCode(i) == <<"X", <<"1", "2", "3", "4">>[i]>>

\* the lists of up to MaxCandidates candidates with these names
CandidateLists ==
  UNION { { [i \in 1..n |-> Row(PositionCode(i), names[i])] : names \in [1..n -> PartNames] } :
          n \in 0..MaxCandidates }

\* _filter_oem_candidates(candidates, sort_by_priority) is called and returns
FilterOemCandidates ==
  /\ ranker_pc = "call"
  /\ ranker_result' = filter_oem_candidates(ranker_input, ranker_sorts)
  /\ ranker_pc' = "done"
  /\ UNCHANGED <<ranker_input, ranker_sorts, oem_code, verdict, nav, laterVars, serviceVars, pageVars>>

InitRanker ==
  /\ ranker_input \in CandidateLists
  /\ ranker_sorts \in BOOLEAN
  /\ ranker_pc = "call"
  /\ ranker_result = <<>>
  /\ nav = NavIdle
  /\ InitLaterIdle
  /\ oem_code = <<>>
  /\ verdict = "none"
  /\ InitServiceIdle
  /\ InitPagesIdle

NextRanker == FilterOemCandidates

SpecRanker == InitRanker /\ [][NextRanker]_vars

(* ------------------------------------------------------------------ *)
(* What the extraction functions read from a loaded page               *)
(*                                                                     *)
(* A page is given by what the patterns and the DOM queries of the     *)
(* code find on it: the fields returned by _extract_vehicle_info_js,   *)
(* the first capture of each pattern of _extract_model_from_page and   *)
(* of _extract_factory_code in the order of the patterns, the rows of  *)
(* the first parts table, the links, cells and headings of a schema    *)
(* page.  The make and model of vehicleMeta and their title tags are   *)
(* not part of the model.                                              *)
(* ------------------------------------------------------------------ *)
\* an entry of selectors_used, "field:by"
Tg(field, by) == [field |-> field, by |-> by]

\* a capture: the name of the pattern and the text of its group
Capture(name, val) == [name |-> name, val |-> val]

\* re.sub(r"\s+", " ", m.group(1).strip()), and for the pattern oem_code_regex
\* m.group(1).strip().replace(" ", "")
Normalised(c) ==
  IF c.name = "oem_code_regex"
  THEN SelectSeq(Strip(c.val), LAMBDA x : x # " ")
  ELSE Sub(Strip(c.val), <<<<Item(Whitespace, 1, Len(c.val))>>>>, "", "any", <<" ">>)

\* lo <= len(s) <= hi
LenWithin(s, lo, hi) == Len(s) >= lo /\ Len(s) <= hi

\* the length test made for the structured and the inline patterns
LengthOk(c) == c.name = "oem_code_regex" \/ LenWithin(Normalised(c), 2, 80)

\* what _extract_model_from_page returns for the capture i, for none when i is 0
PageModelAt(matches, i) ==
  IF i = 0 THEN [model |-> None, tags |-> <<>>]
  ELSE [model |-> Normalised(matches[i]), tags |-> <<Tg("gearbox.model", matches[i].name)>>]

\* _extract_model_from_page: the first capture that passes the tests
extract_model_from_page(matches) ==
  PageModelAt(matches,
              FirstOf({i \in 1..Len(matches) :
                         LengthOk(matches[i]) /\ is_valid_model_candidate(Normalised(matches[i]))}))

\* what _extract_factory_code returns for the capture i, for none when i is 0
FactoryCodeAt(captures, i) ==
  IF i = 0 THEN [code |-> None, tags |-> <<>>]
  ELSE [code |-> Strip(captures[i].val), tags |-> <<Tg("factoryCode", captures[i].name)>>]

\* _extract_factory_code: the first capture of 2 to 20 characters
extract_factory_code(captures) ==
  FactoryCodeAt(captures,
                FirstOf({i \in 1..Len(captures) : LenWithin(Strip(captures[i].val), 2, 20)}))

\* GearboxInfo
GearboxInfo(model, factoryCode, oem, oemCandidates, oemStatus) ==
  [model |-> model, factoryCode |-> factoryCode, oem |-> oem,
   oemCandidates |-> oemCandidates, oemStatus |-> oemStatus,
   needsManualKppCode |-> FALSE]

(* ------------------------------------------------------------------ *)
(* _do_lookup_podzamenu: the search page                               *)
(* ------------------------------------------------------------------ *)
\* the KPP hint column consulted before the dedicated model column
ModelFromVehicleInfoHintFirst(info) ==
  IF info.kppHint # None /\ is_valid_model_candidate(info.kppHint)
  THEN [model |-> info.kppHint, factory |-> None,
        tags |-> <<Tg("gearbox.model", "mui_table_kpp")>>, ran |-> <<>>]
  ELSE IF info.gearboxModel # None /\ is_valid_model_candidate(info.gearboxModel)
  THEN [model |-> info.gearboxModel, factory |-> None,
        tags |-> <<Tg("gearbox.model", "table_model_kpp")>>, ran |-> <<>>]
  ELSE [model |-> None, factory |-> None, tags |-> <<>>, ran |-> <<>>]

\* if vehicle_info.get("gearboxModel") and it is a valid candidate
FromGearboxModel(info) ==
  IF info.gearboxModel # None /\ is_valid_model_candidate(info.gearboxModel)
  THEN [model |-> info.gearboxModel, factory |-> None,
        tags |-> <<Tg("gearbox.model", "table_model_kpp")>>, ran |-> <<>>]
  ELSE [model |-> None, factory |-> None, tags |-> <<>>, ran |-> <<>>]

\* if not gearbox_model and kpp_hint and it is a valid candidate
ThenKppHint(info, s) ==
  IF s.model = None /\ info.kppHint # None /\ is_valid_model_candidate(info.kppHint)
  THEN [s EXCEPT !.model = info.kppHint,
                 !.tags = Append(@, Tg("gearbox.model", "mui_table_kpp"))]
  ELSE s

\* gearbox_model, desc_factory = d, tagged if a model came out
WithKppDescription(s, d) ==
  [model |-> d.model, factory |-> d.factory,
   tags |-> IF d.model # None
            THEN Append(s.tags, Tg("gearbox.model", "kpp_description_parse"))
            ELSE s.tags,
   ran |-> Append(s.ran, "_extract_model_from_kpp_description")]

\* if not gearbox_model and kpp_hint: the description is parsed
ThenKppDescription(info, s) ==
  IF s.model = None /\ info.kppHint # None
  THEN WithKppDescription(s, extract_model_from_kpp_description(info.kppHint))
  ELSE s

\* gearbox_model = a, tagged if a is a model
WithAggregates(s, a) ==
  [s EXCEPT !.model = a,
            !.tags = IF a # None THEN Append(@, Tg("gearbox.model", "aggregates")) ELSE @,
            !.ran = Append(@, "_extract_model_from_aggregates")]

\* if not gearbox_model and vehicle_info.get("aggregates")
ThenAggregates(info, s) ==
  IF s.model = None /\ info.aggregates # None
  THEN WithAggregates(s, extract_model_from_aggregates(info.aggregates))
  ELSE s

\* Step 2 of _do_lookup_podzamenu up to the aggregates field; ran lists the
\* extraction functions called
ModelFromVehicleInfo(info) ==
  ThenAggregates(info, ThenKppDescription(info, ThenKppHint(info, FromGearboxModel(info))))

\* gearbox_model, page_selectors = r
WithPageModel(s, r) ==
  [s EXCEPT !.model = r.model, !.tags = @ \o r.tags,
            !.ran = Append(@, "_extract_model_from_page")]

\* if not gearbox_model: the page text is searched
ThenPageModel(pg, s) ==
  IF s.model = None THEN WithPageModel(s, extract_model_from_page(pg.matches)) ELSE s

\* the rest of Step 2: the page text is searched when no field gave a model
ModelFromSearchPage(pg) == ThenPageModel(pg, ModelFromVehicleInfo(pg))

\* if not factory_code and vehicle_info.get("gearboxFactoryCode")
ThenTableFactory(pg, f) ==
  IF f.code = None /\ pg.gearboxFactoryCode # None
  THEN [code |-> pg.gearboxFactoryCode,
        tags |-> Append(f.tags, Tg("factoryCode", "table_factory_kpp"))]
  ELSE f

\* if not factory_code and desc_factory
ThenDescFactory(m, f) ==
  IF f.code = None /\ m.factory # None
  THEN [code |-> m.factory, tags |-> Append(f.tags, Tg("factoryCode", "kpp_description_parse"))]
  ELSE f

\* if gearbox_model and _is_factory_code(gearbox_model) and not factory_code
ThenModelAsFactory(m, f) ==
  IF m.model # None /\ is_factory_code(m.model) /\ f.code = None
  THEN [f EXCEPT !.code = m.model]
  ELSE f

\* the factory code cascade of the search page
FactoryFromSearchPage(pg, m) ==
  ThenModelAsFactory(m, ThenDescFactory(m, ThenTableFactory(pg, extract_factory_code(pg.factory))))

\* if not ford_model and gearbox_model
ThenFordFromModel(gearbox_model, fromMeta) ==
  IF fromMeta = None /\ gearbox_model # None
  THEN extract_ford_transmission_model(gearbox_model)
  ELSE fromMeta

\* the Ford transmission model: from vehicleMeta first, else from the model
FordModel(pg, gearbox_model) ==
  ThenFordFromModel(gearbox_model,
                    IF pg.transmission # None
                    THEN extract_ford_transmission_model(pg.transmission) ELSE None)

\* the VW-group test without the test of id_type
VwExitAnyIdType(id_type, value, model) == model # None /\ is_vw_group(value)

\* if gearbox_model and id_type == "VIN" and is_vw_group(value)
VwExit(id_type, value, model) == model # None /\ id_type = "VIN" /\ is_vw_group(value)

\* the Ford test without the test of ford_model
FordExitWhateverModel(id_type, value, ford_model) == id_type = "VIN" /\ is_ford(value)

\* if id_type == "VIN" and is_ford(value): ... if ford_model
FordExit(id_type, value, ford_model) ==
  id_type = "VIN" /\ is_ford(value) /\ ford_model # None

\* _do_lookup_podzamenu from the loaded search page up to the early exits:
\* exit says which early exit returned, gearbox and selectors_used are the
\* locals at that point
\* the early exits for VW group and Ford VINs, lines 1577-1604
EarlyExits(id_type, value, m, g, sel, ford, ran) ==
  IF VwExit(id_type, value, m.model)
  THEN [exit |-> "vw", ran |-> ran,
        gearbox |-> [g EXCEPT !.oemStatus = "MODEL_ONLY",
                              !.factoryCode = IF @ = None THEN m.model ELSE @],
        selectors_used |-> Append(sel, Tg("vw_group", "model_only_early_exit"))]
  ELSE IF FordExit(id_type, value, ford)
  THEN [exit |-> "ford", ran |-> ran,
        gearbox |-> [g EXCEPT !.model = ford, !.factoryCode = ford,
                              !.oemStatus = "MODEL_ONLY"],
        selectors_used |-> Append(sel, Tg("ford", "model_only_early_exit"))]
  ELSE [exit |-> "none", ran |-> ran, gearbox |-> g, selectors_used |-> sel]

\* the search page once the model m and the factory code f are read
SearchPageWithFactory(id_type, value, pg, m, f) ==
  EarlyExits(id_type, value, m,
             GearboxInfo(m.model, f.code, None, <<>>, "NOT_AVAILABLE"),
             m.tags \o f.tags,
             IF id_type = "VIN" /\ is_ford(value) THEN FordModel(pg, m.model) ELSE None,
             <<"_extract_vehicle_info_js">> \o m.ran \o <<"_extract_factory_code">>)

\* the search page once the model m is read
SearchPageWithModel(id_type, value, pg, m) ==
  SearchPageWithFactory(id_type, value, pg, m, FactoryFromSearchPage(pg, m))

SearchPageStep(id_type, value, pg) ==
  SearchPageWithModel(id_type, value, pg, ModelFromSearchPage(pg))

(* ------------------------------------------------------------------ *)
(* _do_lookup_podzamenu: the gearbox detail page                       *)
(* ------------------------------------------------------------------ *)
\* oemRe of _extract_oem_from_schema_page_js and oemPattern of
\* _extract_oem_from_table_js: /^[A-Z0-9][A-Z0-9\-]{4,14}$/
OEM_RE == <<Item(UpperAlnum, 1, 1), Item(UpperAlnum \cup {"-"}, 4, 14)>>

\* (oem || '').replace(/\s+/g, '').toUpperCase()
CleanQuery(q) == ToUpper(SelectSeq(q, LAMBDA x : x \notin Whitespace))

\* a link: the query parameter of its href and its text
Link(query, text) == [query |-> query, text |-> text]

\* the links a loop of the script pushes to output.oems
OemLinks(links) ==
  LET kept == SelectSeq(links, LAMBDA a : FullMatch(CleanQuery(a.query), OEM_RE))
  IN [i \in 1..Len(kept) |-> [oem |-> CleanQuery(kept[i].query), text |-> Strip(kept[i].text)]]

\* the fallback loop keeps the first link of each code
FirstOfEach(items) ==
  LET keep == {i \in 1..Len(items) : \A j \in 1..(i - 1) : items[j].oem # items[i].oem}
      pos(k) == CHOOSE i \in keep : Cardinality({j \in keep : j <= i}) = k
  IN [k \in 1..Cardinality(keep) |-> items[pos(k)]]

\* /\[([A-Z0-9]{2,8})\]/
BRACKET_RE == <<<<Item({"["}, 1, 1), Item(UpperAlnum, 2, 8), Item({"]"}, 1, 1)>>>>

\* the group of the match m of BRACKET_RE
BracketGroup(m) == IF m = None THEN None ELSE SubSeq(m, 2, Len(m) - 1)

\* the brackets of the heading i, None when i is 0
BracketAt(headings, i) ==
  IF i = 0 THEN None ELSE BracketGroup(Search(Strip(headings[i]), BRACKET_RE, "", "any"))

\* t.match(/\[([A-Z0-9]{2,8})\]/) on the first heading that has a match
BracketModel(headings) ==
  BracketAt(headings,
            FirstOf({i \in 1..Len(headings) :
                       Search(Strip(headings[i]), BRACKET_RE, "", "any") # None}))

\* if models: ... if _is_valid_model_candidate(first_model): model_hint = first_model
\* if not model_hint and bracket_model: model_hint = bracket_model
ModelHint(first_model_ok, first_model, bracket_model) ==
  IF first_model_ok THEN first_model ELSE bracket_model

\* the links inside detail cells, or else the first link of each code anywhere
SchemaOems(inCells, all_links) ==
  IF inCells # <<>> THEN inCells ELSE FirstOfEach(OemLinks(all_links))

\* the texts of the vehicle cells that have 1 to 99 characters
SchemaModels(cells) ==
  SelectSeq(StripAll(cells), LAMBDA t : Len(t) > 0 /\ Len(t) < 100)

\* the candidates, named by the cells in their order, and the model hint
SchemaPageResult(oems, models, headings) ==
  [candidates |-> [i \in 1..Len(oems) |->
                     Row(oems[i].oem, IF i <= Len(models) THEN models[i] ELSE oems[i].text)],
   model_hint |-> ModelHint(models # <<>> /\ is_valid_model_candidate(models[1]),
                            IF models # <<>> THEN models[1] ELSE None,
                            BracketModel(headings))]

\* _extract_oem_from_schema_page_js on a page with these links inside detail
\* cells, these links anywhere, these vehicle cells and these headings
extract_oem_from_schema_page_js(sp) ==
  SchemaPageResult(SchemaOems(OemLinks(sp.cell_links), sp.all_links),
                   SchemaModels(sp.cells), sp.headings)

\* isOem of _extract_oem_from_table_js: oemPattern.test(v) && /\d{3,}/.test(v)
IsOemCell(v) == FullMatch(v, OEM_RE) /\ HasDigitRun(v, 3)

\* _extract_oem_from_table_js on the rows of the first table with a code column
extract_oem_from_table_js(rows) ==
  LET cleaned == [i \in 1..Len(rows) |->
                    Row(SelectSeq(Strip(rows[i].oem), LAMBDA x : x \notin Whitespace),
                        Strip(rows[i].name))]
  IN SelectSeq(cleaned, LAMBDA r : r.oem # <<>> /\ IsOemCell(r.oem))

\* candidates_raw after the three strategies: s1 from _parse_oem_table, js the
\* result of the schema page script, s2 after it, tj from the table script
RawOf(s1, js, s2, tj) ==
  [rows |-> IF s2 = <<>> /\ tj # <<>> THEN tj ELSE s2,
   model_hint |-> js.model_hint,
   tags2 |-> IF s1 = <<>> /\ js.candidates # <<>> THEN <<Tg("oem", "schema_page_js")>> ELSE <<>>,
   tags3 |-> IF s2 = <<>> /\ tj # <<>> THEN <<Tg("oem", "table_js")>> ELSE <<>>,
   ran |-> <<"_parse_oem_table">>
           \o (IF s1 = <<>> THEN <<"_extract_oem_from_schema_page_js">> ELSE <<>>)
           \o (IF s2 = <<>> THEN <<"_extract_oem_from_table_js">> ELSE <<>>)]

\* Strategy 3 runs if candidates_raw is still empty
ThenTableJs(d, s1, js, s2) ==
  RawOf(s1, js, s2, IF s2 = <<>> THEN extract_oem_from_table_js(d.table_js_rows) ELSE <<>>)

\* Strategy 2 gives candidates_raw if it found any
ThenSchemaPageJs(d, s1, js) ==
  ThenTableJs(d, s1, js, IF s1 = <<>> /\ js.candidates # <<>> THEN js.candidates ELSE s1)

\* the three strategies for candidates_raw in their order, and the model hint
\* of the second
RawCandidates(d) ==
  ThenSchemaPageJs(d, d.table_rows,
                   IF d.table_rows = <<>> THEN extract_oem_from_schema_page_js(d.schema)
                   ELSE [candidates |-> <<>>, model_hint |-> None])

\* for oem_code, name in candidates_raw: if is_valid_gearbox_oem(oem_code)
ValidCandidates(rows) == SelectSeq(rows, LAMBDA r : is_valid_gearbox_oem(r.oem))

\* the first candidate that is no valid OEM and a factory code, or None
FactoryCodeAmong(rows) ==
  Nth([i \in 1..Len(rows) |-> rows[i].oem],
      FirstOf({i \in 1..Len(rows) :
                 ~is_valid_gearbox_oem(rows[i].oem) /\ is_factory_code(rows[i].oem)}))

\* valid_candidates[:10]
FirstTen(q) == SubSeq(q, 1, IF Len(q) < 10 THEN Len(q) ELSE 10)

\* the readings once candidates_raw and valid_candidates are known
ReadingsOf(d, raw, valid) ==
  [f |-> extract_factory_code(d.factory),
   pm |-> extract_model_from_page(d.matches),
   raw |-> raw,
   valid |-> valid,
   fc |-> FactoryCodeAmong(raw.rows),
   filtered |-> filter_oem_candidates(valid, TRUE)]

\* the readings once candidates_raw is known
ReadingsWithRaw(d, raw) == ReadingsOf(d, raw, ValidCandidates(raw.rows))

\* what the code computes from the detail page alone
DetailReadings(d) == ReadingsWithRaw(d, RawCandidates(d))

\* gearbox.oem and gearbox.oemStatus from the valid candidates, the ranked
\* ones and the raw ones
ResolveOem(g, valid, filtered, raw) ==
  IF valid # <<>>
  THEN IF filtered # <<>>
       THEN [g EXCEPT !.oem = filtered[1].oem, !.oemStatus = "FOUND"]
       ELSE [g EXCEPT !.oem = valid[1].oem,
                      !.oemStatus = IF valid[1].oem # None THEN "FOUND" ELSE "NOT_FOUND"]
  ELSE IF raw # <<>> THEN [g EXCEPT !.oemStatus = "NOT_FOUND"]
  ELSE g

\* _do_lookup_podzamenu from the call of _navigate_to_gearbox_detail up to
\* the end of the if gearbox_detail_reached statement, rd being the readings
\* of the page d
DetailPageStepWith(g0, sel0, d, rd) ==
  IF ~d.reached
  THEN [gearbox |-> g0, selectors_used |-> sel0 \o d.nav,
        ran |-> <<"_navigate_to_gearbox_detail">>]
  ELSE
    LET g1 == IF rd.f.code # None THEN [g0 EXCEPT !.factoryCode = rd.f.code] ELSE g0
        read == g1.model = None
        g2 == IF read /\ rd.pm.model # None THEN [g1 EXCEPT !.model = rd.pm.model] ELSE g1
        hinted == rd.raw.model_hint # None /\ g2.model = None
        g3 == IF hinted THEN [g2 EXCEPT !.model = rd.raw.model_hint] ELSE g2
        fromCell == rd.fc # None /\ g3.factoryCode = None
        g4 == [g3 EXCEPT !.factoryCode = IF fromCell THEN rd.fc ELSE @,
                         !.oemCandidates = FirstTen(rd.valid)]
    IN [gearbox |-> ResolveOem(g4, rd.valid, rd.filtered, rd.raw.rows),
        selectors_used |->
          sel0 \o d.nav \o rd.f.tags \o (IF read THEN rd.pm.tags ELSE <<>>) \o rd.raw.tags2
          \o (IF hinted THEN <<Tg("gearbox.model", "schema_page_js")>> ELSE <<>>)
          \o rd.raw.tags3
          \o (IF fromCell THEN <<Tg("factoryCode", "oem_table_cell")>> ELSE <<>>),
        ran |-> <<"_navigate_to_gearbox_detail", "_extract_factory_code">>
                \o (IF read THEN <<"_extract_model_from_page">> ELSE <<>>)
                \o rd.raw.ran
                \o (IF rd.valid # <<>> THEN <<"_filter_oem_candidates">> ELSE <<>>)]

\* the test of oemStatus without the test of id_type
NeedsManualKppCodeAnyIdType(id_type, g) == g.oemStatus \in {"NOT_AVAILABLE", "NOT_FOUND"}

\* if id_type == "FRAME" and gearbox.oemStatus in ("NOT_AVAILABLE", "NOT_FOUND")
NeedsManualKppCode(id_type, g) ==
  id_type = "FRAME" /\ g.oemStatus \in {"NOT_AVAILABLE", "NOT_FOUND"}

\* the raise without the return for needsManualKppCode
ParseFailedAlsoForFrame(g) == g.model = None /\ g.oem = None

\* if not gearbox.model and not gearbox.oem: ... if gearbox.needsManualKppCode:
\* return ... ; raise HTTPException(500, PARSE_FAILED)
ParseFailed(g) == g.model = None /\ g.oem = None /\ ~g.needsManualKppCode

(* ------------------------------------------------------------------ *)
(* _do_lookup_prof_rf: the page of prof_rf                             *)
(* ------------------------------------------------------------------ *)
\* (Коробка\s+передач|Трансмиссия)\s+([A-Z0-9]{6,20}) under re.IGNORECASE
PROF_RF_HEADER_PATTERN(n) ==
  << Literal(<<"K'", "o'", "r'", "o'", "b'", "k'", "a'">>) \o <<Item(Whitespace, 1,
      n)>> \o Literal(<<"p'", "e'", "r'", "e'", "d'", "a'", "ch'">>)
       \o <<Item(Whitespace, 1, n), Item(Alnum, 6, 20)>>,
     Literal(<<"T'", "r'", "a'", "n'", "s'", "m'", "i'", "s'", "s'", "i'",
         "ya'">>) \o <<Item(Whitespace, 1, n), Item(Alnum, 6, 20)>> >>

\* model_text = f"{prefix} {oem}"
HeaderModelAndOem(prefix, oem) == [model |-> prefix \o <<" ">> \o oem, oem |-> oem]

\* the groups of the match m: the prefix up to the last space, the code after it
HeaderGroups(m, cut) ==
  HeaderModelAndOem(Strip(SubSeq(m, 1, cut)), Strip(SubSeq(m, cut + 1, Len(m))))

\* the header the match m gives, None for no match
HeaderOf(m) == IF m = None THEN None ELSE HeaderGroups(m, LastIndexOf(m, " "))

\* no header is ever recognised
HeaderOemIgnored(html) == None

\* _extract_prof_rf_header_oem: (model_text, oem) of the first header, or None
extract_prof_rf_header_oem(html) ==
  HeaderOf(Search(html, PROF_RF_HEADER_PATTERN(Len(html)), "", "any"))

\* a row of a block of the page
BlockRow(oem, name, block) == [oem |-> oem, name |-> name, block |-> block]

\* the rows of the block Оригинал that pass the name filter
OriginalOems(blocked_rows) ==
  LET inBlock == SelectSeq(blocked_rows, LAMBDA r : ToLower(r.block) = <<"o'", "r'", "i'", "g'",
      "i'", "n'", "a'", "l'">>)
  IN NameFilter([i \in 1..Len(inBlock) |-> Row(inBlock[i].oem, inBlock[i].name)])

\* Strategy 0: the header gives the model and the code
FromHeader(pg, header) ==
  [model |-> header.model, oem |-> header.oem,
   candidates_raw |-> IF pg.table_rows # <<>> THEN pg.table_rows
                      ELSE <<Row(header.oem, header.model)>>,
   tags |-> <<Tg("prof_rf", "header_oem")>>
            \o (IF pg.table_rows # <<>> THEN <<Tg("prof_rf", "table_candidates")>>
                ELSE <<>>)]

\* Strategy 1: the block of original parts, ranked
FromOriginalBlock(original_oems, byBlock) ==
  IF original_oems = <<>> THEN [model |-> None, oem |-> None, tags |-> <<>>]
  ELSE IF byBlock # <<>>
  THEN [model |-> byBlock[1].name, oem |-> byBlock[1].oem,
        tags |-> <<Tg("prof_rf", "original_block")>>]
  ELSE [model |-> original_oems[1].name, oem |-> original_oems[1].oem,
        tags |-> <<Tg("prof_rf", "original_block")>>]

\* Strategy 2: the rows of the table, ranked, if no code yet
ThenTableCandidates(pg, b, byTable) ==
  IF b.oem = None /\ pg.table_rows # <<>>
  THEN [model |-> IF byTable # <<>> /\ b.model = None THEN byTable[1].name ELSE b.model,
        oem |-> IF byTable # <<>> THEN byTable[1].oem ELSE b.oem,
        tags |-> Append(b.tags, Tg("prof_rf", "table_candidates"))]
  ELSE b

\* the model from the page text if none yet
WithProfRfPageModel(pg, t, pm) ==
  [model |-> pm.model, oem |-> t.oem, candidates_raw |-> pg.table_rows,
   tags |-> t.tags \o pm.tags]

ThenProfRfPageModel(pg, t) ==
  WithProfRfPageModel(pg, t, IF t.model = None THEN extract_model_from_page(pg.matches)
                             ELSE [model |-> t.model, tags |-> <<>>])

\* the strategies after the header
BlockThenTable(pg, original_oems) ==
  ThenProfRfPageModel(pg,
    ThenTableCandidates(pg,
                        FromOriginalBlock(original_oems,
                                          filter_oem_candidates(original_oems, TRUE)),
                        filter_oem_candidates(pg.table_rows, TRUE)))

\* the header first, else the other strategies
HeaderFirst(pg, header) ==
  IF header # None THEN FromHeader(pg, header)
  ELSE BlockThenTable(pg, OriginalOems(pg.blocked_rows))

\* _extract_from_prof_rf
extract_from_prof_rf(pg) == HeaderFirst(pg, extract_prof_rf_header_oem(pg.html))

\* oem_status = "FOUND" if oem else "NOT_AVAILABLE"
ProfRfOemStatus(oem) == IF oem # None THEN "FOUND" ELSE "NOT_AVAILABLE"

\* is_china_vin
is_china_vin(vin) ==
  vin # <<>> /\ Strip(ToUpper(vin)) # <<>> /\ Strip(ToUpper(vin))[1] = "L"

(* ------------------------------------------------------------------ *)
(* Requests and pages tried                                            *)
(* ------------------------------------------------------------------ *)
\* a Volkswagen Crafter, WMI WV1
VIN_VW == <<"W", "V", "1", "Z", "Z", "Z", "7", "H", "Z", "8", "H", "0", "2", "0", "9", "8", "1">>

\* a Ford built in Russia, WMI X9F
VIN_FORD == <<"X", "9", "F", "S", "X", "X", "E", "E", "D", "S", "8", "S", "0", "4", "8", "0", "0">>

\* a VIN with the China prefix L, of neither family
VIN_CHINA == <<"L", "V", "V", "D", "B", "1", "1", "B", "5", "E", "D", "1", "2", "3", "4", "5", "6">>

FRAME_TOYOTA == <<"G", "X", "1", "1", "0", "-", "0", "0", "6", "9", "6", "2", "2">>

Request(id_type, v) == [idType |-> id_type, value |-> v]

Requests ==
  { Request("VIN", VIN_VW), Request("VIN", VIN_FORD), Request("VIN", VIN_CHINA),
    Request("FRAME", FRAME_TOYOTA), Request("FRAME", VIN_VW) }

\* values of the model column: a gearbox code, a region name
GearboxModelCells == {None, <<"0", "B", "5">>, <<"e", "u", "r", "o", "p", "e">>}

\* values of the KPP column: a body code, a description with two codes
\* 5-ступенчатая механическая- B5/IB5
KppHintCells == {None, <<"A", "C", "U", "2", "5", "L">>, <<"5", "-", "s'", "t'", "u'", "p'",
    "e'", "n'", "ch'", "a'", "t'", "a'", "ya'", " ", "m'", "e'", "h'", "a'", "n'", "i'", "ch'",
    "e'", "s'", "k'", "a'", "ya'", "-", " ", "B", "5", "/", "I", "B", "5">>}

AggregatesCells == {None, <<"g", "e", "t", "r", "i", "e", "b", "e", " ", "7", "2", "2", ".",
    "9", "6", "4">>}

TransmissionCells == {None, <<"6", "D", "C", "T", "4", "5", "0", " ", "-", " ", "M", "P", "S",
    "6", " ", "-", " ", "P", "o", "w", "e", "r", "S", "h", "i", "f", "t", " ", "6", "-", "S",
    "p", "e", "e", "d">>}

\* captures of the patterns маркировка and marking of _extract_factory_code
FactoryCaptures == {<<>>, <<Capture("markirovka", <<"Q", "C", "E", "(", "6", "A", ")">>)>>}

DetailFactoryCaptures == {<<>>, <<Capture("marking", <<"F", "4", "A", "4", "2">>)>>}

GearboxFactoryCells == {None, <<"D", "Q", "2", "5", "0">>}

\* captures of the patterns th/td (КПП), a region name, and inline (КПП:) of
\* _extract_model_from_page
SearchPageCaptures ==
  { <<>>,
    <<Capture("th/td (KPP)", <<"e", "u", "r", "o", "p", "e", " ">>), Capture("inline (KPP:)",
        <<"D", "P", "0">>)>> }

\* a capture of the pattern ZF\s*\d+[A-Z]* of the known gearbox codes
DetailPageCaptures == {<<>>, <<Capture("oem_code_regex", <<"Z", "F", " ", "6">>)>>}

NotFoundPage == [not_found |-> TRUE]

\* The search pages tried for a request.  A field that the run does not read
\* is left empty: the page text when a field of vehicle_info gave the model,
\* the transmission of vehicleMeta when the VIN is not a Ford.
SearchPages(id_type, v) ==
  { pg \in [not_found : {FALSE}, gearboxModel : GearboxModelCells, kppHint : KppHintCells,
            aggregates : AggregatesCells, transmission : TransmissionCells,
            factory : FactoryCaptures, gearboxFactoryCode : GearboxFactoryCells,
            matches : SearchPageCaptures] :
      /\ ModelFromVehicleInfo(pg).model # None => pg.matches = <<>>
      /\ ~(id_type = "VIN" /\ is_ford(v)) => pg.transmission = None }

\* each request with each of its search pages and what SearchPageStep makes of it
SearchRuns ==
  UNION { { [req |-> r, page |-> pg, st |-> SearchPageStep(r.idType, r.value, pg)] :
              pg \in SearchPages(r.idType, r.value) } : r \in Requests }

\* rows of a parts table: (0B5300012A, Коробка передач в сборе); a row with a
\* factory code only; an oil and a housing, both with valid codes
TableRowsTried ==
  { <<>>,
    <<Row(<<"0", "B", "5", "3", "0", "0", "0", "1", "2", "A">>, <<"K'", "o'", "r'", "o'", "b'",
        "k'", "a'", " ", "p'", "e'", "r'", "e'", "d'", "a'", "ch'", " ", "v'", " ", "s'", "b'",
        "o'", "r'", "e'">>)>>,
    <<Row(<<"Q", "C", "E", "(", "6", "A", ")">>, <<"K'", "o'", "r'", "o'", "b'", "k'", "a'",
        " ", "p'", "e'", "r'", "e'", "d'", "a'", "ch'">>)>>,
    <<Row(<<"3", "0", "4", "3", "0", "0", "1", "6", "0", "0">>, <<"M'", "a'", "s'", "l'", "o'",
        " ", "t'", "r'", "a'", "n'", "s'", "m'", "i'", "s'", "s'", "i'", "o'", "n'", "n'", "o'",
        "e'">>), Row(<<"0", "B", "5", "3", "0", "0", "0", "1", "2", "A">>, <<"K'", "a'", "r'",
        "t'", "e'", "r'">>)>> }

SchemaPage(cell_links, all_links, cells, headings) ==
  [cell_links |-> cell_links, all_links |-> all_links, cells |-> cells, headings |-> headings]

NoSchemaPage == SchemaPage(<<>>, <<>>, <<>>, <<>>)

\* schema pages: none; a link with a model cell; a region cell under a heading
\* with a body code in brackets
SchemaPagesTried ==
  { NoSchemaPage,
    SchemaPage(<<Link(<<"0", "b", "5", " ", "3", "0", "0", " ", "0", "1", "2", " ", "a">>,
        <<"K'", "o'", "r'", "o'", "b'", "k'", "a'", " ", "p'", "e'", "r'", "e'", "d'", "a'",
        "ch'">>)>>, <<>>, <<<<"0", "B", "5">>>>, <<>>),
    SchemaPage(<<>>, <<>>, <<<<"e", "u", "r", "o", "p", "e">>>>, <<<<"A'", "K'", "P'", "P'",
        " ", "[", "A", "C", "U", "2", "5", "L", "]">>>>) }

TableJsRowsTried == {<<>>, <<Row(<<"3", "0", "4", "3", "0", " ", "0", "1", "6", "0", "0">>,
    <<"A'", "K'", "P'", "P'">>), Row(<<"A", "B", "-", "C", "D", "E">>, <<"K'", "P'", "P'">>)>>}

NavTagsReached == <<Tg("nav", "pathB_textContent_click")>>

\* The detail pages reached.  What the run does not read is left empty: the
\* schema page when the table has rows, the table cells when there are
\* candidates.
DetailPagesReached ==
  { d \in [reached : {TRUE}, nav : {NavTagsReached}, factory : DetailFactoryCaptures,
           matches : DetailPageCaptures, table_rows : TableRowsTried,
           schema : SchemaPagesTried, table_js_rows : TableJsRowsTried] :
      /\ d.table_rows # <<>> => d.schema = NoSchemaPage
      /\ (d.table_rows # <<>> \/ extract_oem_from_schema_page_js(d.schema).candidates # <<>>)
           => d.table_js_rows = <<>> }

DetailPageMissed == [reached |-> FALSE, nav |-> <<>>]

\* each detail page with its readings
DetailRuns ==
  { [page |-> d, rd |-> DetailReadings(d)] : d \in DetailPagesReached }
  \cup { [page |-> DetailPageMissed, rd |-> <<>>] }

\* the page text is not read when the model is known
DetailRunsFor(m) == { o \in DetailRuns : (m # None /\ o.page.reached) => o.page.matches = <<>> }

\* headers: Коробка передач 3043001600, Коробка передач Getrag
ProfRfHtmlTried == {<<>>, <<"K'", "o'", "r'", "o'", "b'", "k'", "a'", " ", "p'", "e'", "r'",
    "e'", "d'", "a'", "ch'", " ", "3", "0", "4", "3", "0", "0", "1", "6", "0", "0">>, <<"K'",
    "o'", "r'", "o'", "b'", "k'", "a'", " ", "p'", "e'", "r'", "e'", "d'", "a'", "ch'", " ",
    "G", "e", "t", "r", "a", "g">>}

ProfRfTableRowsTried ==
  { <<>>, <<Row(<<"1", "2">>, <<"A'", "K'", "P'", "P'">>), Row(<<"3", "0", "4", "3", "0", "0",
      "1", "6", "0", "0">>, <<"K'", "o'", "r'", "o'", "b'", "k'", "a'", " ", "p'", "e'", "r'",
      "e'", "d'", "a'", "ch'", " ", "v'", " ", "s'", "b'", "o'", "r'", "e'">>)>> }

ProfRfBlocksTried ==
  { <<>>,
    <<BlockRow(<<"9", "9", "9">>, <<"A'", "K'", "P'", "P'">>, <<"A'", "n'", "a'", "l'", "o'",
        "g'", "i'">>), BlockRow(<<"J", "F", "0", "1", "1", "E">>, <<"V'", "a'", "r'", "i'",
        "a'", "t'", "o'", "r'">>, <<"O'", "r'", "i'", "g'", "i'", "n'", "a'", "l'">>)>> }

ProfRfPages ==
  { pg \in [not_found : {FALSE}, html : ProfRfHtmlTried, table_rows : ProfRfTableRowsTried,
            blocked_rows : ProfRfBlocksTried, matches : SearchPageCaptures] :
      /\ extract_prof_rf_header_oem(pg.html) # None => pg.blocked_rows = <<>>
      /\ (extract_prof_rf_header_oem(pg.html) # None
          \/ OriginalOems(pg.blocked_rows) # <<>>
          \/ filter_oem_candidates(pg.table_rows, TRUE) # <<>>) => pg.matches = <<>> }

\* each page of prof_rf with what _extract_from_prof_rf makes of it
ProfRfRuns == { [page |-> pg, x |-> extract_from_prof_rf(pg)] : pg \in ProfRfPages }

(* ------------------------------------------------------------------ *)
(* Specification of one call of _navigate_to_gearbox_detail            *)
(*                                                                     *)
(* Every query of the page (page.evaluate, locator.count) finds what   *)
(* it looks for, finds nothing, or raises; every wait on the page      *)
(* passes or raises.  asyncio.sleep does not raise.                    *)
(* ------------------------------------------------------------------ *)
\* how many sub-accordions the query sub_indices may return
MaxSubAccordions == 2

\* the selectors of the loop of Path D, their Cyrillic words in Latin letters
LinkSelectors ==
  << "a:has-text('Korobka peredach')", "a:has-text('KPP')",
     "[role='link']:has-text('Korobka peredach')" >>

\* the strategy a position of the function belongs to
PathOf(p) ==
  CASE p \in {"step1", "sub_indices", "expand", "step3"} -> "A"
    [] p \in {"tab_clicked", "found_section", "found_card", "has_oem_data", "deeper"} -> "C"
    [] p = "clicked" -> "B"
    [] p = "link_sel" -> "D"
    [] OTHER -> "none"

\* the function as it would be if the block of Path B had no handler
OnExceptionWithoutHandlerB(p) ==
  CASE PathOf(p) = "A" -> "tab_clicked"
    [] PathOf(p) = "C" -> "clicked"
    [] PathOf(p) = "B" -> "raise"
    [] PathOf(p) = "D" -> "link_sel"
    [] OTHER -> "raise"

\* where control goes when an exception is raised at position p: to the
\* statement after the try block that encloses p ("raise" if none does)
OnException(p) ==
  CASE PathOf(p) = "A" -> "tab_clicked"
    [] PathOf(p) = "C" -> "clicked"
    [] PathOf(p) = "B" -> "link_sel"
    [] PathOf(p) = "D" -> "link_sel"
    [] OTHER -> "raise"

\* control goes on to position p of the same strategy
Goto(n, p) == [n EXCEPT !.pc = p]

\* control leaves the strategy of n.pc and enters the one that starts at p
Enter(n, p) ==
  [n EXCEPT !.pc = p, !.tried = Append(@, PathOf(p)), !.verified = FALSE, !.deeper = 0]

\* return v
Return(n, v) == [n EXCEPT !.pc = "done", !.result = v, !.by = PathOf(n.pc)]

\* the loop of Path D goes on to its next selector, and the function
\* returns False after the last one
NextLink(n) ==
  IF n.link < Len(LinkSelectors) THEN [n EXCEPT !.link = @ + 1] ELSE Return(n, "false")

\* an exception is raised at n.pc
Raised(n) ==
  IF OnException(n.pc) = "raise" THEN [n EXCEPT !.pc = "done", !.result = "raised"]
  ELSE IF n.pc = "link_sel" THEN NextLink([n EXCEPT !.caught = TRUE])
  ELSE Enter([n EXCEPT !.caught = TRUE], OnException(n.pc))

\* an element was clicked
Click(n) == [n EXCEPT !.clicks = @ + 1]

\* a wait was started: wait_for_timeout, wait_for_selector or asyncio.sleep
Wait(n) == [n EXCEPT !.waits = @ + 1]

\* wait_for_selector for the part-number elements in its own try block:
\* when it raises, asyncio.sleep(4) follows
WaitForOemElements(n, raises) ==
  IF raises THEN Wait(Wait(n)) ELSE Wait(n)

\* what a query and the wait after it can do
QueryRaises == "raises"
Absent == "absent"
Found == "found"
FoundWaitRaises == "found, wait raises"

\* selectors_used after a step whose outcome is o appended tag
Tagged(o, tags, tag) ==
  IF o \in {Found, FoundWaitRaises} THEN Append(tags, Tg("nav", tag)) ELSE tags

\* the variables a call of _navigate_to_gearbox_detail leaves alone
navOthers ==
  <<serviceVars, oem_code, verdict, rankerVars, laterVars, request_value, search_page,
    detail_page, gearbox, called, profVars>>

\* Path A, step 1: expand the accordion of the transmission
NavStep1 ==
  /\ nav.pc = "step1"
  /\ \E o \in {QueryRaises, Absent, Found, FoundWaitRaises} :
       /\ nav' = CASE o = QueryRaises -> Raised(nav)
                   [] o = Absent -> Enter(nav, "tab_clicked")
                   [] o = Found -> Goto(Wait(Click(nav)), "sub_indices")
                   [] OTHER -> Raised(Wait(Click(nav)))
       /\ selectors_used' = Tagged(o, selectors_used, "L1_transmissiya")
  /\ UNCHANGED navOthers

\* Path A, step 2: the sub-accordions whose text names a gearbox
NavSubIndices ==
  /\ nav.pc = "sub_indices"
  /\ \/ nav' = Raised(nav)
     \/ \E k \in 0..MaxSubAccordions :
          nav' = IF k = 0 THEN Enter(nav, "tab_clicked")
                 ELSE [Goto(nav, "expand") EXCEPT !.subs = k]
  /\ UNCHANGED <<selectors_used, navOthers>>

\* Path A, the loop over sub_indices: expand one sub-accordion
NavExpand ==
  /\ nav.pc = "expand"
  /\ \E o \in {QueryRaises, Found, FoundWaitRaises} :
       /\ nav' = CASE o = QueryRaises -> Raised(nav)
                   [] o = Found -> Goto(Wait(Click(nav)), "step3")
                   [] OTHER -> Raised(Wait(Click(nav)))
       /\ selectors_used' = Tagged(o, selectors_used, "L2")
  /\ UNCHANGED navOthers

\* Path A, step 3: click the link of the gearbox in the sub-accordion
NavStep3 ==
  /\ nav.pc = "step3"
  /\ \E o \in {QueryRaises, Absent, Found, FoundWaitRaises} :
       /\ nav' = CASE o = QueryRaises -> Raised(nav)
                   [] o = Absent -> IF nav.subs > 1
                                    THEN [Goto(nav, "expand") EXCEPT !.subs = @ - 1]
                                    ELSE Enter(nav, "tab_clicked")
                   [] OTHER -> Return([WaitForOemElements(Click(nav), o = FoundWaitRaises)
                                         EXCEPT !.verified = TRUE], "true")
       /\ selectors_used' = Tagged(o, selectors_used, "L3")
  /\ UNCHANGED navOthers

\* Path C, step 1: click the tab of the schemas
NavTabClicked ==
  /\ nav.pc = "tab_clicked"
  /\ \E o \in {QueryRaises, Absent, Found} :
       /\ nav' = CASE o = QueryRaises -> Raised(nav)
                   [] o = Absent -> Enter(nav, "clicked")
                   [] OTHER -> Goto(Wait(Click(nav)), "found_section")
       /\ selectors_used' = Tagged(o, selectors_used, "pathC_schemas_tab")
  /\ UNCHANGED navOthers

\* Path C, step 2: click the transmission section of the left menu
NavFoundSection ==
  /\ nav.pc = "found_section"
  /\ \E o \in {QueryRaises, Absent, Found} :
       /\ nav' = CASE o = QueryRaises -> Raised(nav)
                   [] o = Absent -> Enter(nav, "clicked")
                   [] OTHER -> Goto(Wait(Click(nav)), "found_card")
       /\ selectors_used' = Tagged(o, selectors_used, "pathC_section")
  /\ UNCHANGED navOthers

\* Path C, step 3: click the card of the gearbox on the section page
NavFoundCard ==
  /\ nav.pc = "found_card"
  /\ \E o \in {QueryRaises, Absent, Found, FoundWaitRaises} :
       /\ nav' = CASE o = QueryRaises -> Raised(nav)
                   [] o = Absent -> Return(nav, "true")
                   [] OTHER -> Goto(WaitForOemElements(Click(nav), o = FoundWaitRaises),
                                    "has_oem_data")
       /\ selectors_used' = IF o = Absent
                            THEN Append(selectors_used, Tg("nav", "pathC_section_no_card"))
                            ELSE Tagged(o, selectors_used, "pathC_card")
  /\ UNCHANGED navOthers

\* Path C: are the part-number elements on the page of the card
NavHasOemData ==
  /\ nav.pc = "has_oem_data"
  /\ \E o \in {QueryRaises, Absent, Found} :
       /\ nav' = CASE o = QueryRaises -> Raised(nav)
                   [] o = Absent -> Goto([nav EXCEPT !.verified = TRUE], "deeper")
                   [] OTHER -> Return([nav EXCEPT !.verified = TRUE], "true")
       /\ selectors_used' = IF o = Absent
                            THEN Append(selectors_used, Tg("nav", "pathC_card_no_oem_retry"))
                            ELSE selectors_used
  /\ UNCHANGED navOthers

\* Path C: one more click on a gearbox link of the page of the card
NavDeeper ==
  /\ nav.pc = "deeper"
  /\ \E o \in {QueryRaises, Absent, Found, FoundWaitRaises} :
       /\ nav' = CASE o = QueryRaises -> Raised(nav)
                   [] o = Absent -> Return(nav, "true")
                   [] OTHER -> Return([WaitForOemElements(Click(nav), o = FoundWaitRaises)
                                         EXCEPT !.deeper = @ + 1], "true")
       /\ selectors_used' = Tagged(o, selectors_used, "pathC_deeper")
  /\ UNCHANGED navOthers

\* Path B: click an element whose whole text names the gearbox
NavClicked ==
  /\ nav.pc = "clicked"
  /\ \E o \in {QueryRaises, Absent, Found, FoundWaitRaises} :
       /\ nav' = CASE o = QueryRaises -> Raised(nav)
                   [] o = Absent -> Enter(nav, "link_sel")
                   [] o = Found -> Return(Wait(Click(nav)), "true")
                   [] OTHER -> Raised(Wait(Click(nav)))
       /\ selectors_used' = IF o = Found
                            THEN Append(selectors_used, Tg("nav", "pathB_textContent_click"))
                            ELSE selectors_used
  /\ UNCHANGED navOthers

\* Path D: one round of the loop over the link selectors
NavLinkSel ==
  /\ nav.pc = "link_sel"
  /\ \E o \in {QueryRaises, Absent, Found, FoundWaitRaises} :
       /\ nav' = CASE o = QueryRaises -> Raised(nav)
                   [] o = Absent -> NextLink(nav)
                   [] o = Found -> Return(Wait(Click(nav)), "true")
                   [] OTHER -> Raised(Wait(Click(nav)))
       /\ selectors_used' = IF o = Found
                            THEN Append(selectors_used, Tg("nav", "pathD"))
                            ELSE selectors_used
  /\ UNCHANGED navOthers

\* _navigate_to_gearbox_detail(page, selectors_used) has just been called
InitNav ==
  /\ nav = [NavIdle EXCEPT !.pc = "step1", !.tried = <<"A">>]
  /\ oem_code = <<>>
  /\ verdict = "none"
  /\ ranker_input = <<>>
  /\ ranker_sorts = FALSE
  /\ ranker_pc = "idle"
  /\ ranker_result = <<>>
  /\ InitLaterIdle
  /\ InitServiceIdle
  /\ InitPagesIdle

NextNav ==
  \/ NavStep1
  \/ NavSubIndices
  \/ NavExpand
  \/ NavStep3
  \/ NavTabClicked
  \/ NavFoundSection
  \/ NavFoundCard
  \/ NavHasOemData
  \/ NavDeeper
  \/ NavClicked
  \/ NavLinkSel

SpecNav == InitNav /\ [][NextNav]_vars

\* every await of the function completes or raises, so a call that has not
\* returned takes its next step
SpecNavLive == SpecNav /\ WF_vars(NextNav)

(* ------------------------------------------------------------------ *)
(* Specification of one request followed through its pages             *)
(*                                                                     *)
(* The outcome of a provider run is what its code makes of the pages   *)
(* it loads; every call to the browser completes.                      *)
(* ------------------------------------------------------------------ *)
\* what lookup() and _do_lookup_routed keep while a provider run goes on
routeKept ==
  <<strategy, screenshotOnError, idType, attempt, evidence, source_tried, podzOut, profOut,
    routedOut, invoked, everInvoked, history, response, raised, browser, launches, openCtx,
    semVars, admVars>>

\* the evidence dict of a run of provider p that reached extraction
EvidenceOfRun(p) == RunEv(FreshEv(evidence), p, attempt, TRUE, TRUE)

\* raise HTTPException(status_code=404, detail={"error": "NOT_FOUND"})
NotFoundBy(p) ==
  HttpError(p, attempt, 404, "NOT_FOUND", RunEv(FreshEv(evidence), p, attempt, FALSE, FALSE))

\* _do_lookup_podzamenu from page.goto to the raise of NOT_FOUND
PodzamenuNotFound ==
  /\ pc = "podzamenu"
  /\ search_page' = NotFoundPage
  /\ AfterPodzamenu(NotFoundBy("podzamenu"))
  /\ UNCHANGED <<detail_page, gearbox, selectors_used, called>>
  /\ UNCHANGED <<request_value, profVars, filterVars>>

\* _do_lookup_podzamenu from page.goto to the early exits
PodzamenuSearchPage ==
  /\ pc = "podzamenu"
  /\ \E o \in SearchRuns :
       /\ o.req = Request(idType, request_value)
       /\ search_page' = o.page
       /\ gearbox' = o.st.gearbox
       /\ selectors_used' = o.st.selectors_used
       /\ called' = o.st.ran
       /\ UNCHANGED detail_page
       /\ IF o.st.exit # "none"
          THEN AfterPodzamenu(Result("podzamenu", attempt, o.st.gearbox.oemStatus,
                                     EvidenceOfRun("podzamenu")))
          ELSE /\ pc' = "navigate"
               /\ UNCHANGED routeKept
  /\ UNCHANGED <<request_value, profVars, filterVars>>

\* _do_lookup_podzamenu from _navigate_to_gearbox_detail to its return or raise
PodzamenuDetailPage ==
  /\ pc = "navigate"
  /\ \E o \in DetailRunsFor(gearbox.model) :
       LET st == DetailPageStepWith(gearbox, selectors_used, o.page, o.rd)
           g == [st.gearbox EXCEPT
                   !.needsManualKppCode = NeedsManualKppCode(idType, st.gearbox)]
       IN /\ detail_page' = o.page
          /\ gearbox' = g
          /\ selectors_used' = st.selectors_used
          /\ called' = called \o st.ran
          /\ AfterPodzamenu(IF ParseFailed(g)
                            THEN HttpError("podzamenu", attempt, 500, "PARSE_FAILED",
                                           EvidenceOfRun("podzamenu"))
                            ELSE Result("podzamenu", attempt, g.oemStatus,
                                        EvidenceOfRun("podzamenu")))
  /\ UNCHANGED <<request_value, search_page, profVars, filterVars>>

\* _do_lookup_prof_rf from page.goto to the raise of NOT_FOUND
ProfRfNotFound ==
  /\ pc = "prof_rf"
  /\ prof_page' = NotFoundPage
  /\ AfterProfRf(NotFoundBy("prof_rf"))
  /\ UNCHANGED <<prof_gearbox, prof_selectors>>
  /\ UNCHANGED <<request_value, podzVars, filterVars>>

\* _do_lookup_prof_rf from page.goto to its return or raise of PARSE_FAILED
ProfRfPage ==
  /\ pc = "prof_rf"
  /\ \E o \in ProfRfRuns :
       LET g == GearboxInfo(o.x.model, None, o.x.oem, FirstTen(o.x.candidates_raw),
                            ProfRfOemStatus(o.x.oem))
       IN /\ prof_page' = o.page
          /\ prof_selectors' = o.x.tags
          /\ IF o.x.model = None /\ o.x.oem = None
             THEN /\ AfterProfRf(HttpError("prof_rf", attempt, 500, "PARSE_FAILED",
                                           EvidenceOfRun("prof_rf")))
                  /\ UNCHANGED prof_gearbox
             ELSE /\ prof_gearbox' = g
                  /\ AfterProfRf(Result("prof_rf", attempt, g.oemStatus,
                                        EvidenceOfRun("prof_rf")))
  /\ UNCHANGED <<request_value, podzVars, filterVars>>

InitPages ==
  /\ strategy \in {"auto", "podzamenu", "prof_rf"}
  /\ screenshotOnError = FALSE
  /\ \E r \in Requests : idType = r.idType /\ request_value = r.value
  /\ InitRoute
  /\ InitShared
  /\ InitFilterIdle
  /\ lk = <<>>
  /\ ft = [idle |-> 0, launching |-> 0, ctx |-> 0, done |-> 0]
  /\ search_page = <<>>
  /\ detail_page = <<>>
  /\ gearbox = <<>>
  /\ selectors_used = <<>>
  /\ called = <<>>
  /\ prof_page = <<>>
  /\ prof_gearbox = <<>>
  /\ prof_selectors = <<>>

NextPages ==
  \/ AttemptBegin
  \/ PodzamenuNotFound
  \/ PodzamenuSearchPage
  \/ PodzamenuDetailPage
  \/ ProfRfNotFound
  \/ ProfRfPage

SpecPages == InitPages /\ [][NextPages]_vars

(* ------------------------------------------------------------------ *)
(* Specification of _do_lookup_podzamenu run again on the same pages   *)
(* ------------------------------------------------------------------ *)
\* how often the run is made
NumRuns == 2

\* what one run leaves in its response
RunResult(g, sel) == [gearbox |-> g, selectors_used |-> sel]

\* the run has ended with the result res
Finished(r, res) ==
  [pc |-> IF Len(r.done) + 1 < NumRuns THEN "search" ELSE "done",
   req |-> r.req, done |-> Append(r.done, res)]

\* a list of tags that outlives the run
SelectorsUsedKept(prev) == prev

\* selectors_used: list[str] = []
NewSelectorsUsed(prev) == <<>>

\* the variables a repeated run leaves alone
repeatOthers ==
  <<serviceVars, oem_code, verdict, rankerVars, nav, request_value, profVars, msgr, monitor>>

\* _do_lookup_podzamenu from page.goto to the early exits
RepeatSearchPage ==
  /\ repeat.pc = "search"
  /\ \E o \in SearchRuns :
       /\ o.req = repeat.req
       /\ repeat.done # <<>> => o.page = search_page
       /\ search_page' = o.page
       /\ gearbox' = o.st.gearbox
       /\ selectors_used' = NewSelectorsUsed(selectors_used) \o o.st.selectors_used
       /\ called' = o.st.ran
       /\ repeat' = IF o.st.exit # "none"
                    THEN Finished(repeat, RunResult(gearbox', selectors_used'))
                    ELSE [repeat EXCEPT !.pc = "navigate"]
  /\ UNCHANGED <<detail_page, repeatOthers>>

\* the gearbox as _do_lookup_podzamenu returns it after the detail page
AfterDetailPage(id_type, st) ==
  [st EXCEPT !.gearbox.needsManualKppCode = NeedsManualKppCode(id_type, st.gearbox)]

\* _do_lookup_podzamenu from _navigate_to_gearbox_detail to its return or raise
RepeatDetailPage ==
  /\ repeat.pc = "navigate"
  /\ \E o \in DetailRunsFor(gearbox.model) :
       /\ repeat.done # <<>> => o.page = detail_page
       /\ detail_page' = o.page
       /\ gearbox' = AfterDetailPage(repeat.req.idType,
                       DetailPageStepWith(gearbox, selectors_used, o.page, o.rd)).gearbox
       /\ selectors_used' =
            DetailPageStepWith(gearbox, selectors_used, o.page, o.rd).selectors_used
       /\ called' = called \o DetailPageStepWith(gearbox, selectors_used, o.page, o.rd).ran
       /\ repeat' = Finished(repeat, RunResult(gearbox', selectors_used'))
  /\ UNCHANGED <<search_page, repeatOthers>>

InitRepeat ==
  /\ \E r \in Requests : repeat = [pc |-> "search", req |-> r, done |-> <<>>]
  /\ oem_code = <<>>
  /\ verdict = "none"
  /\ ranker_input = <<>>
  /\ ranker_sorts = FALSE
  /\ ranker_pc = "idle"
  /\ ranker_result = <<>>
  /\ nav = NavIdle
  /\ InitConnectorIdle
  /\ InitServiceIdle
  /\ InitPagesIdle

NextRepeat ==
  \/ RepeatSearchPage
  \/ RepeatDetailPage

SpecRepeat == InitRepeat /\ [][NextRepeat]_vars

(* ------------------------------------------------------------------ *)
(* Specification of the messenger connector: the handlers start_auth,  *)
(* logout and send_message and the tasks they start run on one event   *)
(* loop, each step below is the code of one of them from one await to  *)
(* the next                                                            *)
(* ------------------------------------------------------------------ *)
NumStartAuth == 2

NumTenants == 6

connectorOthers ==
  <<serviceVars, oem_code, verdict, rankerVars, nav, repeat, pageVars, monitor>>

\* the page of a session still answers: nothing under it was closed
Usable(o) ==
  o.page /\ o.context = "open" /\ o.browser = "open" /\ o.playwright = "open"

\* a task that was created and has neither returned nor been cancelled
Live(task) == task.pc \in {"created", "running"}

\* get_status: "disconnected" without a session, else session.status
get_status(m, t) ==
  IF m.sessions[t] = 0 THEN "disconnected" ELSE m.objs[m.sessions[t]].status

\* cleanup_session for the SessionState s, called by request c, from stage k
\* up to the next await that suspends it (the stage to resume at is kept in
\* calls[c].stage) or to its return (stage 8).
\* Stages 1 to 3: if session.<task>: <task>.cancel(); await <task>, for
\* poll_task, qr_refresh_task and message_monitor_task: the cancelled task
\* runs no further statement, awaiting a task that is over does not suspend.
\* Stages 4 to 6: await context.close(), browser.close(), playwright.stop()
\* for each of them that is set.
RECURSIVE CleanupFrom(_, _, _, _)
CleanupFrom(m, c, s, k) ==
  IF k = 1
  THEN IF m.objs[s].poll_task # 0 /\ Live(m.poll[m.objs[s].poll_task])
       THEN [m EXCEPT !.poll[m.objs[s].poll_task].pc = "cancelled", !.calls[c].stage = 2]
       ELSE CleanupFrom(m, c, s, 2)
  ELSE IF k = 2
  THEN IF m.objs[s].qr_refresh_task # 0 /\ Live(m.qr[m.objs[s].qr_refresh_task])
       THEN [m EXCEPT !.qr[m.objs[s].qr_refresh_task].pc = "cancelled", !.calls[c].stage = 3]
       ELSE CleanupFrom(m, c, s, 3)
  ELSE IF k = 3
  THEN IF m.objs[s].message_monitor_task # 0 /\ Live(m.mon[m.objs[s].message_monitor_task])
       THEN [m EXCEPT !.mon[m.objs[s].message_monitor_task].pc = "cancelled",
                      !.calls[c].stage = 4]
       ELSE CleanupFrom(m, c, s, 4)
  ELSE IF k = 4
  THEN IF m.objs[s].context # "none"
       THEN [m EXCEPT !.objs[s].context = "closed", !.calls[c].stage = 5]
       ELSE CleanupFrom(m, c, s, 5)
  ELSE IF k = 5
  THEN IF m.objs[s].browser # "none"
       THEN [m EXCEPT !.objs[s].browser = "closed", !.calls[c].stage = 6]
       ELSE CleanupFrom(m, c, s, 6)
  ELSE IF k = 6
  THEN IF m.objs[s].playwright # "none"
       THEN [m EXCEPT !.objs[s].playwright = "closed", !.calls[c].stage = 7]
       ELSE CleanupFrom(m, c, s, 7)
  ELSE [m EXCEPT !.calls[c].stage = 8]

\* capture_qr_from_web: "async with session_semaphore:", then
\* "await async_playwright().start()"
EnterSemaphore(m, c) ==
  IF Locked(m.value, m.waiters)
  THEN [m EXCEPT !.waiters = Enqueue(@, c), !.calls[c].pc = "waiting"]
  ELSE [m EXCEPT !.value = @ - 1, !.calls[c].pc = "starting"]

\* start_auth: session = SessionState(tenant_id); session.status = "connecting";
\* sessions[tenant_id] = session; then capture_qr_from_web(session) up to its
\* first await
NewSession(m, c) ==
  EnterSemaphore([m EXCEPT !.objs[c] = [SessionState EXCEPT !.status = "connecting"],
                           !.sessions[m.calls[c].tenant] = c,
                           !.calls[c].session = c], c)

\* what the caller of cleanup_session does when it has returned: logout
\* deletes sessions[tenant_id] and returns, start_auth makes its new session
AfterCleanup(m, c) ==
  IF m.calls[c].stage # 8
  THEN [m EXCEPT !.calls[c].pc = "cleanup"]
  ELSE IF m.calls[c].kind = "logout"
  THEN [m EXCEPT !.sessions[m.calls[c].tenant] = 0,
                 !.calls[c].pc = "done", !.calls[c].response = "logged_out"]
  ELSE NewSession(m, c)

\* start_auth up to its first await that suspends it; s is sessions.get(tenant_id)
start_auth(m, c, s) ==
  IF s # 0 /\ m.objs[s].status = "connected"
  THEN [m EXCEPT !.calls[c].pc = "done", !.calls[c].response = "already_connected"]
  ELSE IF s # 0
  THEN AfterCleanup(CleanupFrom([m EXCEPT !.calls[c].session = s], c, s, 1), c)
  ELSE NewSession(m, c)

StartAuth(c) ==
  /\ msgr.calls[c].kind = "start_auth"
  /\ msgr.calls[c].pc = "idle"
  /\ msgr' = start_auth(msgr, c, msgr.sessions[msgr.calls[c].tenant])
  /\ UNCHANGED connectorOthers

\* logout up to its first await that suspends it: cleanup_session returns at
\* once when the tenant has no session
logout(m, c, s) ==
  IF s = 0
  THEN [m EXCEPT !.calls[c].pc = "done", !.calls[c].response = "logged_out"]
  ELSE AfterCleanup(CleanupFrom([m EXCEPT !.calls[c].session = s], c, s, 1), c)

Logout(c) ==
  /\ msgr.calls[c].kind = "logout"
  /\ msgr.calls[c].pc = "idle"
  /\ msgr' = logout(msgr, c, msgr.sessions[msgr.calls[c].tenant])
  /\ UNCHANGED connectorOthers

\* cleanup_session resumes after an await and runs on, and its caller after it
CleanupResumes(c) ==
  /\ msgr.calls[c].pc = "cleanup"
  /\ msgr' = AfterCleanup(CleanupFrom(msgr, c, msgr.calls[c].session, msgr.calls[c].stage), c)
  /\ UNCHANGED connectorOthers

\* capture_qr_from_web: the waiter woken by a release enters the semaphore
Admitted(c) ==
  /\ msgr.calls[c].pc = "waiting"
  /\ IsWoken(msgr.waiters, c)
  /\ msgr' = [msgr EXCEPT !.value = AfterWake(msgr.value, msgr.waiters, c).value,
                          !.waiters = AfterWake(msgr.value, msgr.waiters, c).waiters,
                          !.calls[c].pc = "starting"]
  /\ UNCHANGED connectorOthers

\* capture_qr_from_web: session_state.playwright = playwright, then
\* "browser = await playwright.chromium.launch(...)"
PlaywrightStarted(c) ==
  /\ msgr.calls[c].pc = "starting"
  /\ msgr' = [msgr EXCEPT !.objs[c].playwright = "open", !.calls[c].pc = "launching"]
  /\ UNCHANGED connectorOthers

\* capture_qr_from_web: "except Exception as e: return {success: False}", then
\* start_auth: session.status = "error" and the 500 response; nothing is closed
CaptureFailed(m, c) ==
  [m EXCEPT !.objs[c].status = "error", !.calls[c].pc = "done", !.calls[c].response = "error"]

\* the semaphore after the "async with session_semaphore" block was left
Left(m) ==
  [m EXCEPT !.value = Release(m.value, m.waiters).value,
            !.waiters = Release(m.value, m.waiters).waiters]

\* capture_qr_from_web: launch() returns and the "async with" block ends
\* here; session_state.browser = browser, then "await browser.new_context()".
\* launch() raises when playwright was stopped meanwhile.
BrowserLaunched(c) ==
  /\ msgr.calls[c].pc = "launching"
  /\ msgr' = IF msgr.objs[c].playwright = "open"
             THEN Left([msgr EXCEPT !.objs[c].browser = "open", !.calls[c].pc = "context"])
             ELSE Left(CaptureFailed(msgr, c))
  /\ UNCHANGED connectorOthers

\* capture_qr_from_web: session_state.context = context, then
\* "await context.new_page()", which raises when the browser was closed
ContextCreated(c) ==
  /\ msgr.calls[c].pc = "context"
  /\ msgr' = IF msgr.objs[c].browser = "open"
             THEN [msgr EXCEPT !.objs[c].context = "open", !.calls[c].pc = "page"]
             ELSE CaptureFailed([msgr EXCEPT !.objs[c].context = "closed"], c)
  /\ UNCHANGED connectorOthers

\* capture_qr_from_web: session_state.page = page, then "await page.goto(...)",
\* which raises when the context or the browser was closed
PageCreated(c) ==
  /\ msgr.calls[c].pc = "page"
  /\ msgr' = IF msgr.objs[c].browser = "open" /\ msgr.objs[c].context = "open"
             THEN [msgr EXCEPT !.objs[c].page = TRUE, !.calls[c].pc = "goto"]
             ELSE CaptureFailed([msgr EXCEPT !.objs[c].page = TRUE], c)
  /\ UNCHANGED connectorOthers

\* start_auth after capture_qr_from_web returned success: status "qr_ready",
\* poll_task and qr_refresh_task are created, the response is returned
QrReady(m, c) ==
  [m EXCEPT !.objs[c].status = "qr_ready",
            !.objs[c].poll_task = c,
            !.objs[c].qr_refresh_task = c,
            !.poll[c].pc = "created",
            !.qr[c].pc = "created",
            !.calls[c].pc = "done",
            !.calls[c].response = "qr_ready"]

\* capture_qr_from_web from page.goto to its return: the page loads and a
\* QR code or the whole page is captured (the last screenshot was sent to
\* the browser before anything was closed), or one of the awaits raises
QrCaptured(c) ==
  /\ msgr.calls[c].pc = "goto"
  /\ \E ok \in BOOLEAN :
       msgr' = IF ok THEN QrReady(msgr, c) ELSE CaptureFailed(msgr, c)
  /\ UNCHANGED connectorOthers

\* a task starts: session = sessions.get(tenant_id); it returns at once
\* without a session or a page, or when the loop condition fails at once
TaskStarts(m, task, s, runs) ==
  IF s # 0 /\ m.objs[s].page /\ m.objs[s].status \in runs
  THEN [pc |-> "running", session |-> s]
  ELSE [pc |-> "done", session |-> s]

\* monitor_auth_status starts and reaches its first await
PollStarts(p) ==
  /\ msgr.poll[p].pc = "created"
  /\ msgr' = [msgr EXCEPT !.poll[p] =
                TaskStarts(msgr, @, msgr.sessions[msgr.calls[p].tenant],
                           {"connecting", "qr_ready", "error"})]
  /\ UNCHANGED connectorOthers

\* monitor_auth_status finds the chat view on the page of its session:
\* session.status = "connected", message_monitor_task is created, break
PollAuthenticated(p) ==
  /\ msgr.poll[p].pc = "running"
  /\ Usable(msgr.objs[msgr.poll[p].session])
  /\ msgr' = [msgr EXCEPT !.objs[msgr.poll[p].session].status = "connected",
                          !.objs[msgr.poll[p].session].message_monitor_task = p,
                          !.mon[p].pc = "created",
                          !.poll[p].pc = "done"]
  /\ UNCHANGED connectorOthers

\* monitor_auth_status leaves its loop: the status is "connected" or
\* "disconnected" at the top of the loop, or max_attempts are used up
PollEnds(p) ==
  /\ msgr.poll[p].pc = "running"
  /\ msgr' = [msgr EXCEPT !.poll[p].pc = "done"]
  /\ UNCHANGED connectorOthers

\* refresh_qr_periodically starts and reaches asyncio.sleep(30)
QrRefreshStarts(q) ==
  /\ msgr.qr[q].pc = "created"
  /\ msgr' = [msgr EXCEPT !.qr[q] =
                TaskStarts(msgr, @, msgr.sessions[msgr.calls[q].tenant], {"qr_ready"})]
  /\ UNCHANGED connectorOthers

\* refresh_qr_periodically leaves "while session.status == 'qr_ready'"
QrRefreshEnds(q) ==
  /\ msgr.qr[q].pc = "running"
  /\ msgr.objs[msgr.qr[q].session].status # "qr_ready"
  /\ msgr' = [msgr EXCEPT !.qr[q].pc = "done"]
  /\ UNCHANGED connectorOthers

\* monitor_incoming_messages starts and reaches page.evaluate
MonitorStarts(p) ==
  /\ msgr.mon[p].pc = "created"
  /\ msgr' = [msgr EXCEPT !.mon[p] =
                TaskStarts(msgr, @, msgr.sessions[msgr.calls[p].tenant], {"connected"})]
  /\ UNCHANGED connectorOthers

\* monitor_incoming_messages leaves "while session.status == 'connected'":
\* start_auth has written "qr_ready" or "error" over the status since
MonitorEnds(p) ==
  /\ msgr.mon[p].pc = "running"
  /\ msgr.objs[msgr.mon[p].session].status # "connected"
  /\ msgr' = [msgr EXCEPT !.mon[p].pc = "done"]
  /\ UNCHANGED connectorOthers

\* send_message up to "await session.page.query_selector(input_selector)",
\* which raises when the page was closed; s is sessions.get(tenant_id)
send_message(m, c, s) ==
  IF s = 0 \/ m.objs[s].status # "connected"
  THEN [m EXCEPT !.calls[c].pc = "done", !.calls[c].response = "Not connected"]
  ELSE IF Usable(m.objs[s])
  THEN [m EXCEPT !.calls[c].pc = "typing", !.calls[c].session = s]
  ELSE [m EXCEPT !.calls[c].pc = "done", !.calls[c].response = "error"]

SendMessage(c) ==
  /\ msgr.calls[c].kind = "send_message"
  /\ msgr.calls[c].pc = "idle"
  /\ msgr' = send_message(msgr, c, msgr.sessions[msgr.calls[c].tenant])
  /\ UNCHANGED connectorOthers

\* send_message after query_selector: without an input element the answer is
\* "Could not find message input"; else fill(text) and press("Enter"), which
\* raise when the page was closed. typed keeps, for each text submitted, the
\* status its session had at that moment.
Typed(m, c, found) ==
  IF ~found
  THEN [m EXCEPT !.calls[c].pc = "done", !.calls[c].response = "no_input"]
  ELSE IF Usable(m.objs[m.calls[c].session])
  THEN [m EXCEPT !.calls[c].pc = "done", !.calls[c].response = "sent",
                 !.typed = @ \cup {[call |-> c, status |-> m.objs[m.calls[c].session].status]}]
  ELSE [m EXCEPT !.calls[c].pc = "done", !.calls[c].response = "error"]

SendTyped(c) ==
  /\ msgr.calls[c].pc = "typing"
  /\ \E found \in BOOLEAN : msgr' = Typed(msgr, c, found)
  /\ UNCHANGED connectorOthers

InitOthersIdle ==
  /\ oem_code = <<>>
  /\ verdict = "none"
  /\ ranker_input = <<>>
  /\ ranker_sorts = FALSE
  /\ ranker_pc = "idle"
  /\ ranker_result = <<>>
  /\ nav = NavIdle
  /\ repeat = RepeatIdle
  /\ InitServiceIdle
  /\ InitPagesIdle

\* NumStartAuth calls of start_auth, one of logout and one of send_message,
\* all for one tenant, arrive in any order and at any time
ConnectorCalls ==
  [c \in 1..(NumStartAuth + 2) |->
     IF c <= NumStartAuth THEN Arrival("start_auth", 1)
     ELSE IF c = NumStartAuth + 1 THEN Arrival("logout", 1)
     ELSE Arrival("send_message", 1)]

InitConnector ==
  /\ msgr = Connector(ConnectorCalls, {1})
  /\ monitor = MonitorIdle
  /\ InitOthersIdle

\* NumStartAuth is below MAX_CONCURRENT_SESSIONS: no call waits for the semaphore
NextConnector ==
  \/ \E c \in DOMAIN msgr.calls : StartAuth(c)
  \/ \E c \in DOMAIN msgr.calls : Logout(c)
  \/ \E c \in DOMAIN msgr.calls : CleanupResumes(c)
  \/ \E c \in DOMAIN msgr.calls : PlaywrightStarted(c)
  \/ \E c \in DOMAIN msgr.calls : BrowserLaunched(c)
  \/ \E c \in DOMAIN msgr.calls : ContextCreated(c)
  \/ \E c \in DOMAIN msgr.calls : PageCreated(c)
  \/ \E c \in DOMAIN msgr.calls : QrCaptured(c)
  \/ \E c \in DOMAIN msgr.calls : PollStarts(c)
  \/ \E c \in DOMAIN msgr.calls : PollAuthenticated(c)
  \/ \E c \in DOMAIN msgr.calls : PollEnds(c)
  \/ \E c \in DOMAIN msgr.calls : QrRefreshStarts(c)
  \/ \E c \in DOMAIN msgr.calls : QrRefreshEnds(c)
  \/ \E c \in DOMAIN msgr.calls : MonitorStarts(c)
  \/ \E c \in DOMAIN msgr.calls : MonitorEnds(c)
  \/ \E c \in DOMAIN msgr.calls : SendMessage(c)
  \/ \E c \in DOMAIN msgr.calls : SendTyped(c)

SpecConnector == InitConnector /\ [][NextConnector]_vars

\* one call of start_auth for each of NumTenants tenants
SessionsCalls == [c \in 1..NumTenants |-> Arrival("start_auth", c)]

InitSessions ==
  /\ msgr = Connector(SessionsCalls, 1..NumTenants)
  /\ monitor = MonitorIdle
  /\ InitOthersIdle

NextSessions ==
  \/ \E c \in DOMAIN msgr.calls : StartAuth(c)
  \/ \E c \in DOMAIN msgr.calls : Admitted(c)
  \/ \E c \in DOMAIN msgr.calls : PlaywrightStarted(c)
  \/ \E c \in DOMAIN msgr.calls : BrowserLaunched(c)
  \/ \E c \in DOMAIN msgr.calls : ContextCreated(c)
  \/ \E c \in DOMAIN msgr.calls : PageCreated(c)
  \/ \E c \in DOMAIN msgr.calls : QrCaptured(c)

SpecSessions == InitSessions /\ [][NextSessions]_vars

(* ------------------------------------------------------------------ *)
(* Specification of one task monitor_incoming_messages on the page of  *)
(* a session that stays connected                                      *)
(* ------------------------------------------------------------------ *)
MaxMessages == 2

MaxPolls == 3

monitorOthers ==
  <<serviceVars, oem_code, verdict, rankerVars, nav, repeat, pageVars, msgr>>

\* The message elements a page can show: with or without an identifier of its
\* own (data-message-id or id), with the class of a received or of a sent
\* message or with neither, with or without text
MessageElements ==
  [stable : BOOLEAN, classes : {{}, {"incoming"}, {"outgoing"}, {"sent"}}, text : BOOLEAN]

\* isIncoming = classList.contains('incoming') || contains('received') ||
\*   contains('in') || (!contains('outgoing') && !contains('sent') && !contains('out'))
IsIncoming(classes) ==
  \/ "incoming" \in classes
  \/ "received" \in classes
  \/ "in" \in classes
  \/ ("outgoing" \notin classes /\ "sent" \notin classes /\ "out" \notin classes)

\* id = el.getAttribute('data-message-id') || el.id || `msg_${i}_${Date.now()}`
\* for the i-th element, read at the time now
MessageId(el, i, now) ==
  IF el.stable
  THEN [kind |-> "attribute", k |-> i, at |-> 0]
  ELSE [kind |-> "msg", k |-> i - 1, at |-> now]

\* msgElements.forEach: elements without text are left out; el keeps which
\* element of the page a message was read from
RECURSIVE EvaluateFrom(_, _, _)
EvaluateFrom(elements, i, now) ==
  IF i > Len(elements)
  THEN <<>>
  ELSE (IF elements[i].text
        THEN <<[id |-> MessageId(elements[i], i, now),
                isIncoming |-> IsIncoming(elements[i].classes),
                el |-> i]>>
        ELSE <<>>) \o EvaluateFrom(elements, i + 1, now)

\* messages.slice(-20)
Slice20(messages) ==
  IF Len(messages) <= 20 THEN messages ELSE SubSeq(messages, Len(messages) - 19, Len(messages))

\* forward_message_to_node was called once more for the element
Forwarded(count, el) == [count EXCEPT ![el] = @ + 1]

\* for msg in messages: if msg_id and msg_id not in seen_messages and
\* msg.get('isIncoming'): seen_messages.add(msg_id); await forward_message_to_node(...)
RECURSIVE ProcessFrom(_, _, _)
ProcessFrom(mo, messages, j) ==
  IF j > Len(messages)
  THEN mo
  ELSE IF messages[j].id \notin mo.seen_messages /\ messages[j].isIncoming
  THEN ProcessFrom([mo EXCEPT !.seen_messages = @ \cup {messages[j].id},
                              !.forwards = Forwarded(@, messages[j].el)],
                   messages, j + 1)
  ELSE ProcessFrom(mo, messages, j + 1)

\* the task has started: seen_messages = set(), the session is connected
MonitorRunning(elements) ==
  [pc |-> "running", elements |-> elements, seen_messages |-> {}, now |-> 1, polls |-> 0,
   forwards |-> [i \in 1..MaxMessages |-> 0]]

\* a message element is added to the page
MessageAppears ==
  /\ monitor.pc = "running"
  /\ Len(monitor.elements) < MaxMessages
  /\ \E el \in MessageElements :
       monitor' = [monitor EXCEPT !.elements = Append(@, el)]
  /\ UNCHANGED monitorOthers

\* one pass of "while session.status == 'connected'": page.evaluate, the
\* loop over its messages, asyncio.sleep(2); the clock of the page has moved
\* on when the next pass reads it
MonitorPolls ==
  /\ monitor.pc = "running"
  /\ monitor.polls < MaxPolls
  /\ monitor' = ProcessFrom([monitor EXCEPT !.polls = @ + 1, !.now = @ + 1],
                            Slice20(EvaluateFrom(monitor.elements, 1, monitor.now)), 1)
  /\ UNCHANGED monitorOthers

\* cleanup_session cancels the task
MonitorCancelled ==
  /\ monitor.pc = "running"
  /\ monitor' = [monitor EXCEPT !.pc = "cancelled"]
  /\ UNCHANGED monitorOthers

InitMonitor ==
  /\ monitor = MonitorRunning(<<>>)
  /\ msgr = Connector(<<>>, {})
  /\ InitOthersIdle

NextMonitor ==
  \/ MessageAppears
  \/ MonitorPolls
  \/ MonitorCancelled

SpecMonitor == InitMonitor /\ [][NextMonitor]_vars

(* ------------------------------------------------------------------ *)
(* Properties of routing and retry, checked under Spec                 *)
(* ------------------------------------------------------------------ *)
AutoVin == strategy = "auto" /\ idType = "VIN"

PodzamenuFailedOver ==
  /\ podzOut.kind = "http"
  /\ podzOut.error \in {"NOT_FOUND", "PARSE_FAILED"}

\* r is the response o with the routing keys added and sel as sourceSelected
IsResultOf(r, o, sel) ==
  /\ o.kind = "result"
  /\ r = AddSourceEvidence(o, r.ev.sourceTried, sel)

\* C1: under auto routing of a VIN, when podzamenu returns a FOUND result the
\* routed attempt returns exactly that result with sourceSelected = podzamenu,
\* lookup() returns it, and prof_rf is not invoked in that attempt.
C1_PrimaryFoundReturned ==
  (AutoVin /\ podzOut.kind = "result" /\ podzOut.oemStatus = "FOUND") =>
     /\ invoked = <<"podzamenu">>
     /\ profOut = NoOut
     /\ routedOut = AddSourceEvidence(podzOut, <<"podzamenu">>, "podzamenu")
     /\ pc = "done"
     /\ response = routedOut

C1_Witness ==
  /\ AutoVin
  /\ podzOut.kind = "result"
  /\ podzOut.oemStatus = "FOUND"
  /\ pc = "done"
  /\ response.ev.sourceSelected = "podzamenu"

\* C2: under auto routing of a VIN, when podzamenu fails with NOT_FOUND or
\* PARSE_FAILED, prof_rf is invoked exactly once in that attempt and, when it
\* succeeds, its result is returned whatever its oemStatus, with
\* sourceSelected = prof_rf.
C2_FallbackOnFailure ==
  (AutoVin /\ PodzamenuFailedOver) =>
     /\ invoked = <<"podzamenu", "prof_rf">>
     /\ (profOut.kind = "result" =>
           /\ routedOut = AddSourceEvidence(profOut, <<"podzamenu", "prof_rf">>, "prof_rf")
           /\ pc = "done"
           /\ response = routedOut)

C2_Witness ==
  /\ AutoVin
  /\ podzOut.kind = "http"
  /\ podzOut.error = "PARSE_FAILED"
  /\ profOut.kind = "result"
  /\ profOut.oemStatus = "NOT_AVAILABLE"
  /\ response.ev.sourceSelected = "prof_rf"

\* C3 as stated: under auto routing of a VIN, when podzamenu fails with
\* NOT_FOUND or PARSE_FAILED and prof_rf fails too, in any way, the routed
\* attempt ends with the podzamenu error itself.
C3_OriginalErrorAlways ==
  (AutoVin /\ PodzamenuFailedOver /\ profOut.kind \in {"http", "exc"}) =>
     routedOut = podzOut

\* C3 amended: when prof_rf fails with an HTTPException (NOT_FOUND or
\* PARSE_FAILED) the routed attempt and lookup() raise the podzamenu error
\* itself; a timeout or any other non-HTTP exception of prof_rf leaves the
\* routed attempt in place of the podzamenu error.
C3_OriginalErrorOnHttpFailure ==
  (AutoVin /\ PodzamenuFailedOver) =>
     /\ (profOut.kind = "http" =>
           /\ routedOut = podzOut
           /\ routedOut.by = "podzamenu"
           /\ pc = "done"
           /\ raised = podzOut)
     /\ (profOut.kind = "exc" => routedOut = profOut)

C3_Witness ==
  /\ AutoVin
  /\ podzOut.kind = "http"
  /\ podzOut.error = "NOT_FOUND"
  /\ profOut.kind = "http"
  /\ profOut.error = "NOT_FOUND"
  /\ raised = podzOut
  /\ raised # profOut

\* C4 as stated: under auto routing of a VIN, when podzamenu returns a result
\* that is not FOUND, prof_rf is queried and its result is returned only if it
\* is FOUND; after any other end of the prof_rf call, any failure included, the
\* routed attempt returns the podzamenu result with sourceSelected = podzamenu.
C4_PrimaryKeptAfterAnyFailure ==
  (AutoVin /\ podzOut.kind = "result" /\ podzOut.oemStatus # "FOUND") =>
     /\ invoked = <<"podzamenu", "prof_rf">>
     /\ (profOut # NoOut =>
           IF profOut.kind = "result" /\ profOut.oemStatus = "FOUND"
           THEN IsResultOf(routedOut, profOut, "prof_rf")
           ELSE IsResultOf(routedOut, podzOut, "podzamenu"))

\* C4 amended: the podzamenu result is returned with sourceSelected = podzamenu
\* when prof_rf returns a result that is not FOUND or fails with an
\* HTTPException; a timeout or any other non-HTTP exception of prof_rf ends the
\* routed attempt with that exception.
C4_PrimaryKeptAfterHttpFailure ==
  (AutoVin /\ podzOut.kind = "result" /\ podzOut.oemStatus # "FOUND") =>
     /\ invoked = <<"podzamenu", "prof_rf">>
     /\ (profOut # NoOut =>
           IF profOut.kind = "result" /\ profOut.oemStatus = "FOUND"
           THEN IsResultOf(routedOut, profOut, "prof_rf") /\ response = routedOut
           ELSE IF profOut.kind \in {"result", "http"}
           THEN IsResultOf(routedOut, podzOut, "podzamenu") /\ response = routedOut
           ELSE routedOut = profOut)

C4_Witness ==
  /\ AutoVin
  /\ podzOut.kind = "result"
  /\ podzOut.oemStatus = "NOT_AVAILABLE"
  /\ profOut.kind = "result"
  /\ profOut.oemStatus = "NOT_AVAILABLE"
  /\ response.by = "podzamenu"
  /\ response.ev.sourceSelected = "podzamenu"

\* C5: with SOURCE_STRATEGY = podzamenu prof_rf is never invoked, with
\* SOURCE_STRATEGY = prof_rf podzamenu is never invoked, and a failure of the
\* pinned provider ends the routed attempt as it is, with no second provider.
C5_PinningExclusive ==
  /\ (strategy = "podzamenu" =>
        /\ everInvoked \subseteq {"podzamenu"}
        /\ (podzOut.kind \in {"http", "exc"} => routedOut = podzOut))
  /\ (strategy = "prof_rf" =>
        /\ everInvoked \subseteq {"prof_rf"}
        /\ (profOut.kind \in {"http", "exc"} => routedOut = profOut))
  /\ (strategy \in {"podzamenu", "prof_rf"} => Len(invoked) <= 1)

C5_Witness ==
  /\ strategy = "podzamenu"
  /\ idType = "VIN"
  /\ podzOut.kind = "http"
  /\ podzOut.error = "PARSE_FAILED"
  /\ raised = podzOut
  /\ pc = "done"

\* C6: for a FRAME prof_rf is never invoked; under auto or podzamenu only
\* podzamenu serves the request and its failure is not followed by a fallback;
\* under prof_rf the request fails with UNSUPPORTED_ID_TYPE in its first
\* attempt, before any provider is invoked.
C6_FrameOnlyPodzamenu ==
  idType = "FRAME" =>
     /\ "prof_rf" \notin everInvoked
     /\ profOut = NoOut
     /\ (strategy # "prof_rf" =>
           /\ (pc # "attempt" \/ history # <<>> => invoked = <<"podzamenu">>)
           /\ (podzOut.kind \in {"http", "exc"} => routedOut = podzOut)
           /\ (podzOut.kind = "result" => IsResultOf(routedOut, podzOut, "podzamenu")))
     /\ (strategy = "prof_rf" =>
           /\ everInvoked = {}
           /\ (pc = "done" =>
                 /\ raised.error = "UNSUPPORTED_ID_TYPE"
                 /\ raised.status = 400
                 /\ Len(history) = 1
                 /\ response = NoOut))

C6_Witness ==
  /\ idType = "FRAME"
  /\ strategy = "prof_rf"
  /\ pc = "done"
  /\ raised.error = "UNSUPPORTED_ID_TYPE"

TimedOut(o) == o.kind = "exc" /\ o.error = "timeout"

\* C7: a request makes at most MAX_RETRIES + 1 = 3 routed attempts; every
\* attempt but the last ended with a timeout-class exception; an attempt that
\* ends in any other way ends the request; an HTTPException is raised as it
\* is, any other exception and the third timeout as LOOKUP_ERROR.
C7_BoundedRetry ==
  /\ Len(history) <= MAX_RETRIES + 1
  /\ Len(history) <= 3
  /\ \A i \in 1..(Len(history) - 1) : TimedOut(history[i])
  /\ (history # <<>> /\ ~TimedOut(history[Len(history)]) => pc = "done")
  /\ (Len(history) = 3 => pc = "done")
  /\ (pc = "done" =>
        /\ history # <<>>
        /\ LET last == history[Len(history)] IN
             /\ (last.kind = "result" => response = last /\ raised = NoOut)
             /\ (last.kind = "http" => raised = last /\ response = NoOut)
             /\ (last.kind = "exc" =>
                   /\ raised.error = "LOOKUP_ERROR"
                   /\ raised.status = 500
                   /\ response = NoOut))
  /\ (pc # "done" => attempt = Len(history))

C7_Witness ==
  /\ Len(history) = 3
  /\ \A i \in 1..3 : TimedOut(history[i])
  /\ pc = "done"
  /\ raised.error = "LOOKUP_ERROR"

\* everything the evidence e holds was written by provider p in attempt a
WrittenOnlyBy(e, p, a) ==
  /\ e.source = p
  /\ e.finalUrl = Tag(p, a)
  /\ \A i \in 1..Len(e.selectorsUsed) : e.selectorsUsed[i] = Tag(p, a)
  /\ e.flags \subseteq {Tag(p, a)}
  /\ e.error = ""

\* C8: the response lookup() returns after earlier attempts timed out holds
\* evidence written only by the provider run that produced it, in the last
\* attempt: nothing of an earlier attempt and nothing of the other provider;
\* every provider run starts from a fresh evidence record.
C8_FreshEvidence ==
  /\ (pc = "done" /\ response.kind = "result" =>
        /\ response.att = Len(history) - 1
        /\ WrittenOnlyBy(response.ev, response.by, response.att))
  /\ (podzOut # NoOut => WrittenOnlyBy(podzOut.ev, "podzamenu", podzOut.att))
  /\ (profOut # NoOut => WrittenOnlyBy(profOut.ev, "prof_rf", profOut.att))

C8_Witness ==
  /\ pc = "done"
  /\ response.kind = "result"
  /\ Len(history) = 2
  /\ TimedOut(history[1])
  /\ history[1].ev.flags # {}
  /\ response.by = "podzamenu"
  /\ profOut.kind = "result"
  /\ response.ev.flags = {Tag("podzamenu", 1)}

\* C11: when a /lookup request has completed, in whatever way (a result, an
\* HTTPException, LOOKUP_ERROR after a timeout with or without retries or
\* after any other error, the error path that takes a failure screenshot
\* included), every browser context it opened is closed and its admission
\* permit is released.
C11_AllReleasedOnExit ==
  pc = "done" => openCtx = 0 /\ lookupValue = LookupLimit

(* ------------------------------------------------------------------ *)
(* Properties of admission and of the shared browser, checked under    *)
(* SpecAdm                                                             *)
(* ------------------------------------------------------------------ *)
\* C9: the browser is launched at most once, whatever the interleaving of the
\* first callers of _get_browser(), so that every caller gets the one instance.
C9_SingleLaunch == launches <= 1

\* lookups inside "async with _lookup_semaphore"
ExecutingLookups == {l \in Lookups : lk[l].pc \in {"launching", "ctx"}}

\* lookups that own a permit: those inside, and those a release has woken
LookupHolders == ExecutingLookups \cup {l \in Lookups : IsWoken(lookupWaiters, l)}

ExecutingFetches == ft.launching + ft.ctx

WokenFetches == Len(SelectSeq(fetchWaiters, LAMBDA x : x.woken))

FetchHolders == ExecutingFetches + WokenFetches

\* C10: at most 2 routed lookup attempts and at most 5 page fetches execute at
\* once, and the limits are independent: each semaphore counts the requests
\* of its own kind only, a lookup waits only while lookups own both lookup
\* permits or a woken lookup has yet to resume, and a fetch waits only while
\* fetches own all five fetch permits or a woken fetch has yet to resume.
C10_IndependentLimits ==
  /\ Cardinality(ExecutingLookups) <= 2
  /\ ExecutingFetches <= 5
  /\ lookupValue >= 0
  /\ fetchValue >= 0
  /\ lookupValue + Cardinality(LookupHolders) = LookupLimit
  /\ fetchValue + FetchHolders = FetchLimit
  /\ ((\E l \in Lookups : IsQueued(lookupWaiters, l)) =>
        \/ Cardinality(ExecutingLookups) = LookupLimit
        \/ \E l \in Lookups : IsWoken(lookupWaiters, l))
  /\ (IsQueued(fetchWaiters, AnyFetch) =>
        \/ ExecutingFetches = FetchLimit
        \/ WokenFetches > 0)

C10_Witness ==
  /\ Cardinality(ExecutingLookups) = 2
  /\ ExecutingFetches = 5
  /\ \E l \in Lookups : IsQueued(lookupWaiters, l)
  /\ IsQueued(fetchWaiters, AnyFetch)

(* ------------------------------------------------------------------ *)
(* Properties of the OEM validity filter, checked under SpecOemFilter  *)
(* ------------------------------------------------------------------ *)
ForbiddenInOem == {"(", ")", ";", ":", "="}

\* C13: is_valid_gearbox_oem(code) is true exactly when the length of code is
\* between 6 and 25 inclusive, code contains three consecutive digits and none
\* of the characters ( ) ; : = ; it is false for every other string, the
\* empty string included.
C13_OemValidExactly ==
  verdict # "none" =>
     /\ verdict \in {"valid", "invalid"}
     /\ verdict = "valid" <=>
           /\ Len(oem_code) >= 6
           /\ Len(oem_code) <= 25
           /\ \E i \in 1..(Len(oem_code) - 2) :
                 {oem_code[i], oem_code[i + 1], oem_code[i + 2]} \subseteq Digits
           /\ \A i \in 1..Len(oem_code) : oem_code[i] \notin ForbiddenInOem
     /\ (oem_code = <<>> => verdict = "invalid")

C13_Witness ==
  /\ verdict = "valid"
  /\ Len(oem_code) = 25
  /\ Has(oem_code, "A")
  /\ Has(oem_code, "-")

(* ------------------------------------------------------------------ *)
(* Properties of the candidate ranker, checked under SpecRanker        *)
(* ------------------------------------------------------------------ *)
\* the name, in lower case, has one of the keywords in it
HasKeyword(name, keywords) ==
  \E kw \in keywords : \E i \in 1..(Len(name) - Len(kw) + 1) :
    \A j \in 1..Len(kw) : ToLower(name)[i + j - 1] = kw[j]

\* a transmission/gearbox keyword and no maintenance-consumable keyword
Survives(r) ==
  HasKeyword(r.name, OEM_INCLUDE_PATTERNS) /\ ~HasKeyword(r.name, OEM_EXCLUDE_PATTERNS)

Occurrences(q, r) == Cardinality({i \in 1..Len(q) : q[i] = r})

PriorityClass(r) == IF HasKeyword(r.name, OEM_PRIORITY_TERMS) THEN 0 ELSE 1

\* [("X1","Oil filter"), ("X2","Коробка передач в сборе"), ("X3","Вариатор")]
RANKING_EXAMPLE ==
  << Row(<<"X", "1">>, <<"O", "i", "l", " ", "f", "i", "l", "t", "e", "r">>),
     Row(<<"X", "2">>, <<"K'", "o'", "r'", "o'", "b'", "k'", "a'", " ", "p'", "e'", "r'", "e'",
                         "d'", "a'", "ch'", " ", "v'", " ", "s'", "b'", "o'", "r'", "e'">>),
     Row(<<"X", "3">>, <<"V'", "a'", "r'", "i'", "a'", "t'", "o'", "r'">>) >>

\* C22: with sort_by_priority the ranker returns exactly the candidates whose
\* name has an include keyword and no exclude keyword, those with a priority
\* term first and, within a priority class, by name in ascending order; on the
\* example it drops X1 and returns X2 before X3
C22_RankerKeepsAndOrders ==
  ranker_pc = "done" /\ ranker_sorts =>
    /\ \A r \in Range(ranker_input) \cup Range(ranker_result) :
         Occurrences(ranker_result, r) = IF Survives(r) THEN Occurrences(ranker_input, r) ELSE 0
    /\ \A i, j \in 1..Len(ranker_result) :
         i < j =>
           /\ PriorityClass(ranker_result[i]) <= PriorityClass(ranker_result[j])
           /\ PriorityClass(ranker_result[i]) = PriorityClass(ranker_result[j]) =>
                ~StrLess(ranker_result[j].name, ranker_result[i].name)
    /\ ranker_input = RANKING_EXAMPLE =>
         ranker_result = <<RANKING_EXAMPLE[2], RANKING_EXAMPLE[3]>>

\* the example was ranked
C22_Witness ==
  /\ ranker_pc = "done" /\ ranker_sorts
  /\ ranker_input = RANKING_EXAMPLE
  /\ Len(ranker_result) = 2
  /\ ranker_result[1].oem = <<"X", "2">>

(* ------------------------------------------------------------------ *)
(* Properties of extraction, checked under SpecPages                   *)
(* ------------------------------------------------------------------ *)
\* _do_lookup_podzamenu returned a LookupResponse; its gearbox is gearbox
PodzamenuReturned == podzOut.kind = "result"

\* _do_lookup_prof_rf returned a LookupResponse; its gearbox is prof_gearbox
ProfRfReturned == profOut.kind = "result"

ResolvedValid(g) == g.oemStatus = "FOUND" => g.oem # None /\ is_valid_gearbox_oem(g.oem)

\* C12: in every LookupResponse returned by podzamenu or by prof_rf,
\* oemStatus = FOUND implies that gearbox.oem is non-empty and passes
\* is_valid_gearbox_oem
C12_FoundOemIsValid ==
  /\ PodzamenuReturned => ResolvedValid(gearbox)
  /\ ProfRfReturned => ResolvedValid(prof_gearbox)

\* the request's value carries a WMI of the VW group or of Ford
FamilyVin == idType = "VIN" /\ (is_vw_group(request_value) \/ is_ford(request_value))

\* C14: in every returned LookupResponse oemStatus = MODEL_ONLY implies
\* that gearbox.oem is absent and gearbox.model is non-empty; MODEL_ONLY
\* comes only from podzamenu, for idType VIN with a VW-group or Ford WMI,
\* never for FRAME and never from prof_rf
C14_ModelOnlyFromFamilyExit ==
  /\ PodzamenuReturned /\ gearbox.oemStatus = "MODEL_ONLY" =>
       gearbox.oem = None /\ gearbox.model # None /\ FamilyVin
  /\ ProfRfReturned => prof_gearbox.oemStatus # "MODEL_ONLY"
  /\ response.kind = "result" /\ response.oemStatus = "MODEL_ONLY" =>
       response.by = "podzamenu" /\ gearbox.oemStatus = "MODEL_ONLY" /\ FamilyVin

\* a Ford VIN answered with MODEL_ONLY
C14_Witness ==
  /\ response.kind = "result" /\ response.oemStatus = "MODEL_ONLY"
  /\ is_ford(request_value) /\ gearbox.model # None /\ gearbox.oem = None

\* the search page was loaded and is not a not-found page
SearchPageRead == search_page # <<>> /\ ~search_page.not_found

\* the navigation to the detail page and the OEM extraction strategies
NavigationAndOemStrategies ==
  {"_navigate_to_gearbox_detail", "_parse_oem_table", "_extract_oem_from_schema_page_js",
   "_extract_oem_from_table_js", "_filter_oem_candidates"}

\* podzamenu returned MODEL_ONLY from the search page alone
ReturnedModelOnlyEarly ==
  /\ PodzamenuReturned /\ gearbox.oemStatus = "MODEL_ONLY"
  /\ pc # "navigate" /\ detail_page = <<>>
  /\ Range(called) \cap NavigationAndOemStrategies = {}

\* the run is about to navigate or has navigated
Navigates == pc = "navigate" \/ "_navigate_to_gearbox_detail" \in Range(called)

\* C15: for idType VIN with a VW-group WMI, once a gearbox model has been
\* extracted from the search page the result is returned with MODEL_ONLY
\* and neither _navigate_to_gearbox_detail nor an OEM extraction strategy
\* runs; for a Ford WMI the same holds when a Ford transmission model can
\* be derived; in every other case the run navigates
C15_FamilyEarlyExit ==
  SearchPageRead =>
    LET m == ModelFromSearchPage(search_page).model
        vw == idType = "VIN" /\ is_vw_group(request_value) /\ m # None
        ford == idType = "VIN" /\ is_ford(request_value)
                  /\ FordModel(search_page, m) # None
    IN /\ vw \/ ford => ReturnedModelOnlyEarly
       /\ ~vw /\ ~ford => Navigates /\ ~ReturnedModelOnlyEarly

\* a VW-group VIN whose search page gave a model, answered without navigation
C15_Witness ==
  /\ SearchPageRead /\ idType = "VIN" /\ is_vw_group(request_value)
  /\ ModelFromSearchPage(search_page).model # None
  /\ ReturnedModelOnlyEarly /\ pc = "done"

\* "0B5"
MODEL_0B5 == <<"0", "B", "5">>

\* "0B5300012A"
OEM_0B5300012A == <<"0", "B", "5", "3", "0", "0", "0", "1", "2", "A">>

\* ("0B5300012A", "Коробка передач в сборе")
GearboxAssemblyRow ==
  Row(OEM_0B5300012A,
      <<"K'", "o'", "r'", "o'", "b'", "k'", "a'", " ", "p'", "e'", "r'", "e'", "d'", "a'",
        "ch'", " ", "v'", " ", "s'", "b'", "o'", "r'", "e'">>)

\* the request under the auto strategy is answered and the search page of
\* podzamenu gave the model "0B5"
AutoAnsweredWithModel0B5(vin) ==
  /\ strategy = "auto" /\ idType = "VIN" /\ request_value = vin
  /\ pc = "done" /\ SearchPageRead
  /\ ModelFromSearchPage(search_page).model = MODEL_0B5

HEADER_3043001600 ==
  <<"K'", "o'", "r'", "o'", "b'", "k'", "a'", " ", "p'", "e'", "r'", "e'", "d'", "a'", "ch'",
    " ", "3", "0", "4", "3", "0", "0", "1", "6", "0", "0">>

\* "3043001600"
OEM_3043001600 == <<"3", "0", "4", "3", "0", "0", "1", "6", "0", "0">>

\* a China-prefixed VIN under the auto strategy is answered after podzamenu
\* reported NOT_FOUND and prof_rf loaded a page with the header
ChinaVinFallsBackToHeaderPage ==
  /\ strategy = "auto" /\ idType = "VIN" /\ is_china_vin(request_value)
  /\ pc = "done"
  /\ podzOut.kind = "http" /\ podzOut.status = 404 /\ podzOut.error = "NOT_FOUND"
  /\ prof_page # <<>> /\ ~prof_page.not_found /\ prof_page.html = HEADER_3043001600

\* C17: for a China-prefixed VIN under the auto strategy, when podzamenu
\* reports NOT_FOUND and the prof_rf page has the header "Коробка передач
\* 3043001600", the returned result has gearbox.oem "3043001600", oemStatus
\* FOUND, evidence.sourceSelected prof_rf and sourceTried [podzamenu, prof_rf]
C17_ChinaVinHeaderOem ==
  ChinaVinFallsBackToHeaderPage =>
    /\ response.kind = "result" /\ response.by = "prof_rf"
    /\ ProfRfReturned /\ prof_gearbox.oem = OEM_3043001600
    /\ prof_gearbox.oemStatus = "FOUND" /\ response.oemStatus = "FOUND"
    /\ response.ev.sourceSelected = "prof_rf"
    /\ response.ev.sourceTried = <<"podzamenu", "prof_rf">>

\* such a request answered by prof_rf with the header's OEM
C17_Witness ==
  /\ ChinaVinFallsBackToHeaderPage
  /\ response.kind = "result" /\ response.by = "prof_rf"
  /\ prof_gearbox.oem = OEM_3043001600 /\ response.oemStatus = "FOUND"
  /\ prof_selectors[1] = Tg("prof_rf", "header_oem")

\* _do_lookup_podzamenu raised HTTPException(500, PARSE_FAILED)
PodzamenuParseFailed ==
  podzOut.kind = "http" /\ podzOut.status = 500 /\ podzOut.error = "PARSE_FAILED"

\* the search page was read, the navigation was tried, and neither
\* gearbox.model nor gearbox.oem was obtained
NothingObtained ==
  /\ SearchPageRead /\ pc # "navigate"
  /\ "_navigate_to_gearbox_detail" \in Range(called)
  /\ gearbox.model = None /\ gearbox.oem = None

ModelTags == SelectSeq(selectors_used, LAMBDA t : t.field = "gearbox.model")

\* what a strategy yields: a value and its tag, or nothing
Yield(model, by) ==
  [model |-> model, tags |-> IF model = None THEN <<>> ELSE <<Tg("gearbox.model", by)>>]

\* the strategies of the search page in their order, each with what it yields
SearchPageYields(pg) ==
  << Yield(IF pg.gearboxModel # None /\ is_valid_model_candidate(pg.gearboxModel)
           THEN pg.gearboxModel ELSE None, "table_model_kpp"),
     Yield(IF pg.kppHint # None /\ is_valid_model_candidate(pg.kppHint)
           THEN pg.kppHint ELSE None, "mui_table_kpp"),
     Yield(IF pg.kppHint # None
           THEN extract_model_from_kpp_description(pg.kppHint).model ELSE None,
           "kpp_description_parse"),
     Yield(IF pg.aggregates # None
           THEN extract_model_from_aggregates(pg.aggregates) ELSE None, "aggregates"),
     [model |-> extract_model_from_page(pg.matches).model,
      tags |-> extract_model_from_page(pg.matches).tags] >>

\* the strategies of the detail page in their order, each with what it yields
DetailPageYields(d) ==
  IF ~d.reached THEN <<>>
  ELSE << [model |-> extract_model_from_page(d.matches).model,
           tags |-> extract_model_from_page(d.matches).tags],
          Yield(RawCandidates(d).model_hint, "schema_page_js") >>

\* the first strategy that yields a value
FirstYield(yields) ==
  LET at == {i \in 1..Len(yields) : yields[i].model # None}
  IN IF at = {} THEN Yield(None, "")
     ELSE yields[CHOOSE x \in at : \A y \in at : x <= y]

\* the yields of every search page and of every detail page tried
YieldsOfSearchPages == [pg \in {o.page : o \in SearchRuns} |-> SearchPageYields(pg)]

YieldsOfDetailPages == [d \in {o.page : o \in DetailRuns} |-> DetailPageYields(d)]

CascadeWinner ==
  FirstYield(YieldsOfSearchPages[search_page]
             \o (IF detail_page = <<>> THEN <<>> ELSE YieldsOfDetailPages[detail_page]))

\* no function of the cascade is called after one that gave the model: the
\* functions called are those of the strategies up to the winner
NoStrategyAfterWinner ==
  LET ys == YieldsOfSearchPages[search_page]
      before(i) == \A j \in 1..(i - 1) : ys[j].model = None
  IN /\ "_extract_model_from_kpp_description" \in Range(called) => before(3)
     /\ "_extract_model_from_aggregates" \in Range(called) => before(4)
     /\ Len(SelectSeq(called, LAMBDA f : f = "_extract_model_from_page")) >= 1 => before(5)
     /\ Len(SelectSeq(called, LAMBDA f : f = "_extract_model_from_page")) = 2 =>
          \A j \in 1..5 : ys[j].model = None
     /\ "_extract_oem_from_schema_page_js" \in Range(called) /\ ModelTags # <<>>
          /\ ModelTags[1].by = "schema_page_js" =>
          \A j \in 1..5 : ys[j].model = None

FordExited == Tg("ford", "model_only_early_exit") \in Range(selectors_used)

\* C19, as stated: the strategies are consulted in the fixed order, the first
\* that yields a value determines gearbox.model, no later strategy runs for
\* or overrides that field, and selectorsUsed of the returned evidence holds
\* exactly one gearbox.model tag, the winner's
C19_AsStated ==
  PodzamenuReturned /\ gearbox.model # None =>
    /\ gearbox.model = CascadeWinner.model
    /\ Len(ModelTags) = 1 /\ ModelTags = CascadeWinner.tags
    /\ NoStrategyAfterWinner

\* C19, amended: the same, except when the Ford early exit returned: then
\* gearbox.model is the Ford transmission model, derived from the
\* transmission of vehicleMeta or else from the cascade's model, and
\* selectorsUsed holds the tag of the cascade's winner if there is one
C19_FirstYieldWinsUnlessFordExit ==
  PodzamenuReturned =>
    /\ ModelTags = CascadeWinner.tags
    /\ NoStrategyAfterWinner
    /\ ~FordExited => gearbox.model = CascadeWinner.model
    /\ FordExited =>
         LET t == IF search_page.transmission # None
                  THEN extract_ford_transmission_model(search_page.transmission)
                  ELSE None
         IN gearbox.model = IF t # None THEN t
                            ELSE extract_ford_transmission_model(CascadeWinner.model)

\* a model column and a KPP hint column that both yield: the model column won
C19_Witness ==
  /\ PodzamenuReturned /\ ~FordExited
  /\ YieldsOfSearchPages[search_page][1].model # None
  /\ YieldsOfSearchPages[search_page][2].model # None
  /\ gearbox.model = search_page.gearboxModel
  /\ ModelTags = <<Tg("gearbox.model", "table_model_kpp")>>

\* C20: in every result returned by _do_lookup_podzamenu with a non-empty
\* gearbox.model that was not produced by a manufacturer-family early exit,
\* the model passes _is_valid_model_candidate, whichever strategy produced it
C20_ModelPassesFilters ==
  PodzamenuReturned /\ gearbox.model # None /\ gearbox.oemStatus # "MODEL_ONLY" =>
    is_valid_model_candidate(gearbox.model)

\* the detail page was reached and read
DetailPageRead == detail_page # <<>> /\ detail_page.reached

Consulted(f) == f \in Range(called)

\* no row passes is_valid_gearbox_oem
NoneValid(rows) == ValidCandidates(rows) = <<>>

\* C21: on the reached page the strategies run in the order _parse_oem_table,
\* _extract_oem_from_schema_page_js, _extract_oem_from_table_js, and a later
\* strategy is consulted exactly when the earlier ones produced no candidate
\* that passes is_valid_gearbox_oem
C21_LaterStrategyIffNoneValid ==
  DetailPageRead =>
    /\ Consulted("_parse_oem_table")
    /\ Consulted("_extract_oem_from_schema_page_js") <=> NoneValid(detail_page.table_rows)
    /\ Consulted("_extract_oem_from_table_js") <=>
         /\ NoneValid(detail_page.table_rows)
         /\ NoneValid(extract_oem_from_schema_page_js(detail_page.schema).candidates)

\* what the run read from the detail page it reached
DetailPageReadings == (CHOOSE o \in DetailRuns : o.page = detail_page).rd

\* C23: whenever _do_lookup_podzamenu returns oemStatus = FOUND, gearbox.oem
\* is the oem of the first element of the ranked survivor list, so it belongs
\* to a candidate whose name has an include keyword and no exclude keyword
C23_FoundIsTopSurvivor ==
  PodzamenuReturned /\ gearbox.oemStatus = "FOUND" =>
    /\ DetailPageRead
    /\ DetailPageReadings.filtered # <<>>
    /\ gearbox.oem = DetailPageReadings.filtered[1].oem
    /\ \E i \in 1..Len(DetailPageReadings.raw.rows) :
         /\ DetailPageReadings.raw.rows[i].oem = gearbox.oem
         /\ Survives(DetailPageReadings.raw.rows[i])

\* what _extract_from_prof_rf made of the page of prof_rf
ProfRfPageReadings == (CHOOSE o \in ProfRfRuns : o.page = prof_page).x

\* C24: in every returned LookupResponse gearbox.oemCandidates is the list of
\* the candidates that survived the candidate filter, unranked, in their
\* order of extraction, cut to its first 10 entries
C24_CandidatesAreSurvivors ==
  /\ PodzamenuReturned =>
       /\ Len(gearbox.oemCandidates) <= 10
       /\ gearbox.oemCandidates =
            IF DetailPageRead THEN FirstTen(NameFilter(DetailPageReadings.valid)) ELSE <<>>
  /\ ProfRfReturned =>
       /\ Len(prof_gearbox.oemCandidates) <= 10
       /\ prof_gearbox.oemCandidates = FirstTen(NameFilter(ProfRfPageReadings.candidates_raw))

(* ------------------------------------------------------------------ *)
(* Properties of navigation, checked under SpecNav and SpecNavLive     *)
(* ------------------------------------------------------------------ *)
\* the order in which _navigate_to_gearbox_detail tries its strategies
PathOrder == <<"A", "C", "B", "D">>

\* the clicks and the waits one call can perform at most
MaxClicks == MaxSubAccordions + 8

MaxWaits == MaxSubAccordions + 9

\* the call has returned or raised
NavEnded == nav.pc = "done"

\* what holds of a call at every moment: no exception leaves it, the
\* strategies are entered in the order A, C, B, D, the clicks and waits are
\* bounded, True is returned by the strategy entered last, and False is
\* returned only after the last selector of Path D
NavInOrder ==
  /\ nav.result \in {"none", "true", "false"}
  /\ NavEnded <=> nav.result # "none"
  /\ nav.tried = SubSeq(PathOrder, 1, Len(nav.tried))
  /\ nav.clicks <= MaxClicks
  /\ nav.waits <= MaxWaits
  /\ nav.result = "true" => nav.by = nav.tried[Len(nav.tried)]
  /\ nav.result = "false" => nav.tried = PathOrder /\ nav.link = Len(LinkSelectors)

\* C25: _navigate_to_gearbox_detail always terminates and never raises: it
\* tries Path A, Path C, Path B, Path D in that order with a bounded number
\* of clicks and waits, a failure or an exception inside a strategy falls
\* through to the next one, the first strategy that reaches a page returns
\* True, and False is returned only after all four are exhausted
C25_NavigationEndsInOrder == [](NavInOrder) /\ <>(NavEnded)

\* a call that clicked, caught an exception, and returned False after all
\* four strategies
C25_Witness ==
  /\ nav.result = "false"
  /\ nav.caught
  /\ nav.clicks > 0
  /\ nav.tried = PathOrder

\* C26: a page that navigation accepts was checked for part-number elements
\* before the call returned True, with at most one drill-deeper click when
\* they were absent, whichever strategy returned True
C26_AcceptedPageWasVerified ==
  nav.result = "true" => nav.verified /\ nav.deeper <= 1

\* _navigate_to_gearbox_detail returned False
DetailPageNotReached == detail_page # <<>> /\ ~detail_page.reached

\* C27: when _navigate_to_gearbox_detail returns False, the OEM extraction
\* cascade still runs, on the content of the search result page
C27_CascadeRunsWithoutDetailPage ==
  DetailPageNotReached => Consulted("_parse_oem_table")

(* ------------------------------------------------------------------ *)
(* Further properties of routing and retry, checked under Spec         *)
(* ------------------------------------------------------------------ *)
\* the routed attempt that ended the request
LastAttempt == history[Len(history)]

\* the request ended with an exception that is neither a timeout nor an
\* HTTPException
EndedByOtherFailure ==
  pc = "done" /\ history # <<>> /\ LastAttempt.kind = "exc" /\ ~TimedOut(LastAttempt)

\* C28: a failure that is neither a timeout nor an HTTPException is not
\* retried, and the error the caller gets carries the evidence accumulated
\* during the failing attempt: the provider used, the strategy tags, the
\* final URL
C28_ErrorCarriesAttemptEvidence ==
  /\ (history # <<>> /\ LastAttempt.kind = "exc" /\ ~TimedOut(LastAttempt) => pc = "done")
  /\ (EndedByOtherFailure =>
        /\ raised.error = "LOOKUP_ERROR"
        /\ raised.ev.source = LastAttempt.ev.source
        /\ raised.ev.selectorsUsed = LastAttempt.ev.selectorsUsed
        /\ raised.ev.finalUrl = LastAttempt.ev.finalUrl)

\* _do_lookup_podzamenu ended in a way after which _do_lookup_routed goes on
\* to prof_rf: a result that is not FOUND, or NOT_FOUND or PARSE_FAILED
PodzamenuLeftOpen ==
  /\ podzOut # NoOut
  /\ \/ podzOut.kind = "result" /\ podzOut.oemStatus # "FOUND"
     \/ podzOut.kind = "http" /\ podzOut.error \in {"NOT_FOUND", "PARSE_FAILED"}

SourceEvidenceAgrees(r) ==
  /\ r.ev.sourceTried # <<>>
  /\ r.ev.sourceSelected # ""
  /\ r.ev.sourceSelected = r.ev.source
  /\ r.ev.sourceSelected = r.by
  /\ r.ev.sourceSelected \in Range(r.ev.sourceTried)

\* C30: every LookupResponse that _do_lookup_routed returns carries
\* evidence.sourceSelected and evidence.sourceTried; sourceSelected equals the
\* evidence.source of the returned result and is an element of sourceTried
C30_SourceSelectedIsTried ==
  /\ \A i \in 1..Len(history) : history[i].kind = "result" => SourceEvidenceAgrees(history[i])
  /\ (routedOut # NoOut /\ routedOut.kind = "result" => SourceEvidenceAgrees(routedOut))
  /\ (response # NoOut => SourceEvidenceAgrees(response))

\* prof_rf was selected after podzamenu had been tried
C30_Witness ==
  /\ pc = "done"
  /\ response # NoOut
  /\ response.ev.sourceSelected = "prof_rf"
  /\ response.ev.sourceTried = <<"podzamenu", "prof_rf">>
  /\ podzOut.kind = "result"

(* ------------------------------------------------------------------ *)
(* Properties of the queue of lookups, checked under SpecQueue         *)
(* ------------------------------------------------------------------ *)
\* where the lookup l stands among the waiters of _lookup_semaphore
QueuePos(w, l) == CHOOSE i \in 1..Len(w) : w[i].id = l /\ ~w[i].woken

\* the lookups that own a permit: those inside "async with", and those a
\* release has woken
PermitHolders ==
  {l \in DOMAIN lk : lk[l].pc \in {"launching", "ctx"} \/ IsWoken(lookupWaiters, l)}

\* in this step the lookup l ends an attempt with a timeout and repeats it
Reenters(l) == lk'[l].attempt > lk[l].attempt

\* in this step the lookup l gets a permit: it enters the semaphore or is
\* woken by a release, or it released its permit and entered again at once
GetsPermit(l) ==
  /\ l \in PermitHolders'
  /\ l \notin PermitHolders \/ Reenters(l)

\* a lookup gets a permit only if every lookup still waiting came after it,
\* and a lookup that repeats its attempt while others wait goes to the end
\* of the queue
ArrivalOrderStep ==
  \A l \in DOMAIN lk :
    /\ GetsPermit(l) =>
         \A k \in DOMAIN lk \ {l} :
           IsQueued(lookupWaiters, k) =>
             /\ IsQueued(lookupWaiters, l)
             /\ QueuePos(lookupWaiters, l) < QueuePos(lookupWaiters, k)
    /\ Reenters(l) /\ lookupWaiters # <<>> =>
         /\ lk'[l].pc = "wait"
         /\ lookupWaiters'[Len(lookupWaiters')] = [id |-> l, woken |-> FALSE]
         /\ SubSeq(lookupWaiters', 1, Len(lookupWaiters)) =
              Release(lookupValue, lookupWaiters).waiters

\* C31: lookups beyond the limit are admitted in arrival order with no
\* priority: a lookup that started waiting before another gets its permit
\* before it, and a lookup that retries after a timeout releases its permit
\* and queues again behind the lookups already waiting
C31_AdmittedInArrivalOrder == [][ArrivalOrderStep]_vars

\* a lookup that timed out waits again behind a lookup that was waiting
\* before and still waits
C31_Witness ==
  /\ Len(lookupWaiters) >= 2
  /\ lk[lookupWaiters[Len(lookupWaiters)].id].attempt > 0
  /\ ~lookupWaiters[Len(lookupWaiters)].woken
  /\ lk[lookupWaiters[1].id].attempt = 0
  /\ ~lookupWaiters[1].woken

SearchPageFactoryCodes ==
  { [page |-> o.page,
     code |-> FactoryFromSearchPage(o.page, ModelFromSearchPage(o.page)).code] :
    o \in SearchRuns }

FactoryCodeOfSearchPage ==
  (CHOOSE x \in SearchPageFactoryCodes : x.page = search_page).code

\* C33: the factory code that the cascade of the search page has set is never
\* replaced by a later step of the same lookup: not by an early exit, not by
\* the extraction on the detail page, not by a cell of the OEM table
C33_FactoryCodeNeverReplaced ==
  SearchPageRead /\ gearbox # <<>> /\ FactoryCodeOfSearchPage # None =>
    gearbox.factoryCode = FactoryCodeOfSearchPage

\* needsManualKppCode of the gearbox g tells that a FRAME gave no OEM
ManualCodeExact(g) ==
  /\ g.needsManualKppCode <=> (idType = "FRAME" /\ g.oemStatus \in {"NOT_AVAILABLE", "NOT_FOUND"})
  /\ g.needsManualKppCode => idType # "VIN" /\ g.oemStatus \notin {"FOUND", "MODEL_ONLY"}

\* C34: in every returned LookupResponse needsManualKppCode is true exactly
\* when the identifier is a FRAME and oemStatus is NOT_AVAILABLE or NOT_FOUND;
\* it is never true for a VIN, for a result of prof_rf, or together with
\* FOUND or MODEL_ONLY
C34_ManualCodeOnlyForFrameWithoutOem ==
  /\ PodzamenuReturned => ManualCodeExact(gearbox)
  /\ ProfRfReturned => ManualCodeExact(prof_gearbox) /\ ~prof_gearbox.needsManualKppCode

\* a FRAME answered without model and without OEM, and with the flag
C34_Witness ==
  /\ PodzamenuReturned
  /\ idType = "FRAME"
  /\ gearbox.needsManualKppCode
  /\ gearbox.model = None
  /\ gearbox.oem = None

\* the resolved OEM of g is the oem of one of its candidates
OemAmongCandidates(g) ==
  g.oemStatus = "FOUND" => \E i \in 1..Len(g.oemCandidates) : g.oemCandidates[i].oem = g.oem

\* C35: in every returned LookupResponse with oemStatus = FOUND the resolved
\* gearbox.oem is the oem of some entry of gearbox.oemCandidates, for both
\* providers
C35_ResolvedOemIsCandidate ==
  /\ PodzamenuReturned => OemAmongCandidates(gearbox)
  /\ ProfRfReturned => OemAmongCandidates(prof_gearbox)

(* ------------------------------------------------------------------ *)
(* Further properties of routing, checked under Spec                   *)
(* ------------------------------------------------------------------ *)
\* C36: evidence.sourceTried of a returned LookupResponse lists every provider
\* that was invoked during that routed attempt, in the order of invocation,
\* a provider whose call failed included
C36_SourceTriedListsInvoked ==
  pc = "done" /\ response # NoOut => response.ev.sourceTried = invoked

(* ------------------------------------------------------------------ *)
(* Properties of the messenger connector, checked under SpecSessions   *)
(* and SpecConnector                                                   *)
(* ------------------------------------------------------------------ *)
\* a browser that was launched and neither closed nor lost with its playwright
BrowserOpen(o) == o.browser = "open" /\ o.playwright = "open"

OpenBrowsers == {c \in DOMAIN msgr.objs : BrowserOpen(msgr.objs[c])}

\* C37: the number of browsers open at the same time, over all tenants, never
\* exceeds MAX_CONCURRENT_SESSIONS, whatever the order of the calls
C37_OpenBrowsersWithinLimit == Cardinality(OpenBrowsers) <= MAX_CONCURRENT_SESSIONS

\* C38: every open browser belongs to the SessionState that sessions holds
\* for its tenant, so that each tenant has at most one open browser and
\* cleanup_session reaches it
C38_OpenBrowserIsOwned ==
  \A c \in OpenBrowsers : msgr.sessions[msgr.calls[c].tenant] = c

\* the tenant's logout has returned, the tenant has no session entry and no
\* start_auth for the tenant is under way
LoggedOut(t) ==
  /\ \E l \in DOMAIN msgr.calls :
       /\ msgr.calls[l].kind = "logout"
       /\ msgr.calls[l].tenant = t
       /\ msgr.calls[l].pc = "done"
  /\ msgr.sessions[t] = 0
  /\ \A c \in DOMAIN msgr.calls :
       msgr.calls[c].kind = "start_auth" /\ msgr.calls[c].tenant = t
         => msgr.calls[c].pc \in {"idle", "done"}

\* a task started for the tenant is still in its loop
TaskRunning(t) ==
  \E p \in DOMAIN msgr.calls :
    /\ msgr.calls[p].tenant = t
    /\ \/ msgr.poll[p].pc = "running"
       \/ msgr.qr[p].pc = "running"
       \/ msgr.mon[p].pc = "running"

\* C39: text is typed and submitted only for a session whose status is
\* "connected"; and after the tenant's logout, with no start_auth
\* under way, no task of the tenant runs on, a status query answers
\* "disconnected" and send_message answers "Not connected"
C39_SendOnlyConnectedAndLogoutEndsAll ==
  /\ \A r \in msgr.typed : r.status = "connected"
  /\ \A t \in DOMAIN msgr.sessions :
       LoggedOut(t) =>
         /\ ~TaskRunning(t)
         /\ get_status(msgr, t) = "disconnected"
         /\ \A c \in DOMAIN msgr.calls :
              msgr.calls[c].kind = "send_message" /\ msgr.calls[c].tenant = t
                /\ msgr.calls[c].pc = "idle"
                => send_message(msgr, c, msgr.sessions[t]).calls[c].response = "Not connected"

(* ------------------------------------------------------------------ *)
(* Properties of monitor_incoming_messages, checked under SpecMonitor  *)
(* ------------------------------------------------------------------ *)
\* the element carries a class of a sent message and none of a received one
Outgoing(el) ==
  /\ el.classes \cap {"outgoing", "sent", "out"} # {}
  /\ el.classes \cap {"incoming", "received", "in"} = {}

\* C40: over all passes of the monitor a message is forwarded to the backend
\* at most once, whether its element has an identifier of its own or not, and
\* an outgoing message is never forwarded
C40_ForwardedAtMostOnce ==
  \A i \in 1..Len(monitor.elements) :
    /\ monitor.forwards[i] <= 1
    /\ Outgoing(monitor.elements[i]) => monitor.forwards[i] = 0

====
